---- MODULE Spec2Model ----
(***************************************************************************)
(* IGotYou: the hidden-gem filter (analysis_tool, in its mean-based and   *)
(* its fixed-300 variant), the backend decoder (parse_agent_response) and *)
(* its Markdown parser (parse_markdown_response), the retry settings of   *)
(* the agents' model calls, the root agents with their clarification loop *)
(* and pipeline, the endpoints /api/discover (discover_gems) and          *)
(* /api/select (select_gem), and the one runner the endpoints share.      *)
(*                                                                         *)
(* Conventions.  A Python dict is a function from its keys to its values; *)
(* a missing key is a key outside DOMAIN.  A rating is held in tenths     *)
(* (4.5 is 45).  A name is a sequence of one-character strings, so that   *)
(* str.lower() and the substring test `kw in name` are computed.          *)
(***************************************************************************)
EXTENDS Integers, Sequences, FiniteSets, TLC

VARIABLES
  given,         \* the candidate list as it was passed to analysis_tool
  cands,         \* the same dict objects, as analysis_tool leaves them
  gmaps_client,  \* config.gmaps_client: configured or None, and the place ids whose fetch raises
  out,           \* what analysis_tool did: its return value, or the exception it let out
  pc,            \* "ready" before a call of analysis_tool, then the variant that ran;
                 \* "decode" while the decoder is the component under study
  raw,           \* the text handed to parse_agent_response
  canon,         \* <<r>> when raw is json.dumps(r) of a canonical result r, else <<>>
  decoded,       \* what parse_agent_response did with raw
  preset,        \* which retry_config the model call in progress runs under
  history,       \* the outcome of each invocation of that call so far (200 or the error status)
  call,          \* "pending" while the call may be invoked again, then "returned" or "raised"
  http,          \* what the endpoint did: the body it returned, or the HTTP error it
                 \* raised
  response,      \* what runner.run_debug returned to the endpoint: a str or a list
                 \* of events
  session        \* a conversation with a root agent: the package it comes from, the phase
                 \* it is in, the clarification replies so far, the stages of the pipeline
                 \* that ran, what the filter returned, the traveller's date and the advice;
                 \* turns are the calls of run_debug it got from the backend, each with the
                 \* caller of the endpoint, and gems_for the caller whose discover produced
                 \* the gems it holds

filterVars == <<given, cands, gmaps_client, out>>
decoderVars == <<raw, canon, decoded>>
retryVars == <<preset, history, call>>
vars == <<filterVars, pc, decoderVars, retryVars, session, http, response>>

(***************************************************************************)
(* Dicts                                                                   *)
(***************************************************************************)
Has(d, k) == k \in DOMAIN d

Get(d, k, dflt) == IF k \in DOMAIN d THEN d[k] ELSE dflt

Put(d, k, v) == [x \in (DOMAIN d) \cup {k} |-> IF x = k THEN v ELSE d[x]]

Min(a, b) == IF a <= b THEN a ELSE b

(***************************************************************************)
(* Strings                                                                 *)
(***************************************************************************)
Lower(ch) ==
  CASE ch = "A" -> "a" [] ch = "B" -> "b" [] ch = "C" -> "c" [] ch = "D" -> "d"
    [] ch = "E" -> "e" [] ch = "F" -> "f" [] ch = "G" -> "g" [] ch = "H" -> "h"
    [] ch = "I" -> "i" [] ch = "J" -> "j" [] ch = "K" -> "k" [] ch = "L" -> "l"
    [] ch = "M" -> "m" [] ch = "N" -> "n" [] ch = "O" -> "o" [] ch = "P" -> "p"
    [] ch = "Q" -> "q" [] ch = "R" -> "r" [] ch = "S" -> "s" [] ch = "T" -> "t"
    [] ch = "U" -> "u" [] ch = "V" -> "v" [] ch = "W" -> "w" [] ch = "X" -> "x"
    [] ch = "Y" -> "y" [] ch = "Z" -> "z" [] OTHER -> ch

\* str.lower()
LowerStr(s) == [i \in 1..Len(s) |-> Lower(s[i])]

\* `sub in s` on strings
Contains(s, sub) ==
  \E i \in 0..(Len(s) - Len(sub)) : \A j \in 1..Len(sub) : s[i + j] = sub[j]

(***************************************************************************)
(* The business denylist                                                   *)
(***************************************************************************)
BUSINESS_KEYWORDS ==
  { <<"r","e","s","t","a","u","r","a","n","t">>,
    <<"c","a","f","e">>,
    <<"c","o","f","f","e","e">>,
    <<"h","o","t","e","l">>,
    <<"h","o","s","t","e","l">>,
    <<"i","n","n">>,
    <<"s","h","o","p">>,
    <<"s","t","o","r","e">>,
    <<"m","a","r","k","e","t">>,
    <<"b","a","r">>,
    <<"p","u","b">>,
    <<"c","l","u","b">>,
    <<"n","i","g","h","t","c","l","u","b">>,
    <<"b","a","k","e","r","y">>,
    <<"b","i","s","t","r","o">>,
    <<"e","a","t","e","r","y">>,
    <<"d","i","n","i","n","g">>,
    <<"d","i","n","e","r">>,
    <<"p","i","z","z","e","r","i","a">>,
    <<"m","a","l","l">>,
    <<"b","o","u","t","i","q","u","e">>,
    <<"s","a","l","o","n">>,
    <<"s","p","a">>,
    <<"g","y","m">>,
    <<"s","c","h","o","o","l">>,
    <<"i","n","s","t","r","u","c","t","o","r">>,
    <<"r","e","n","t","a","l">>,
    <<"c","e","n","t","e","r">> }

BUSINESS_TYPES ==
  { "restaurant", "cafe", "bar", "food", "meal_takeaway",
    "lodging", "store", "shopping_mall", "department_store",
    "bakery", "night_club", "casino", "school", "travel_agency", "Ski_school" }

\* any(kw in name_lower for kw in BUSINESS_KEYWORDS)
NameHasKeyword(name) ==
  LET name_lower == LowerStr(name)
  IN  \E kw \in BUSINESS_KEYWORDS : Contains(name_lower, kw)

\* the names candidates carry ('' stands for a candidate without a name)
Names ==
  { <<>>, <<"T","a","r","n">>, <<"F","e","l","l">>, <<"C","r","a","g">>,
    <<"O","l","d"," ","I","N","N">>, <<"M","e","s","a">>, <<"C","o","v","e">>,
    <<"G","l","e","n">>, <<"M","o","o","r">>, <<"V","a","l","e">> }

\* NameHasKeyword, computed once for every name
KeywordTable == [name \in Names |-> NameHasKeyword(name)]

\* the name test with name.lower() left out
KeywordTableCaseSensitive ==
  [name \in Names |-> \E kw \in BUSINESS_KEYWORDS : Contains(name, kw)]

is_business_name_CaseSensitive(p) == KeywordTableCaseSensitive[Get(p, "name", <<>>)]

is_business_name(p) == KeywordTable[Get(p, "name", <<>>)]

\* any(bt in place_types for bt in BUSINESS_TYPES)
is_business_type(p) ==
  LET place_types == Get(p, "types", {})
  IN  \E bt \in BUSINESS_TYPES : bt \in place_types

IsBusiness(p) == is_business_name(p) \/ is_business_type(p)

(***************************************************************************)
(* list.sort(key=..., reverse=True): stable, descending.  keys[i] is the  *)
(* key of s[i], a tuple of integers compared lexicographically.           *)
(***************************************************************************)
LexGt(a, b) ==
  \E i \in 1..Len(a) : a[i] > b[i] /\ \A j \in 1..(i - 1) : a[j] = b[j]

\* the sort with reverse=True left out: stable, ascending
SortDesc_Ascending(s, keys) ==
  LET n == Len(s)
      pos(i) == 1 + Cardinality({ j \in 1..n :
                       LexGt(keys[i], keys[j]) \/ (keys[j] = keys[i] /\ j < i) })
  IN  [p \in 1..n |-> s[CHOOSE i \in 1..n : pos(i) = p]]

SortDesc(s, keys) ==
  LET n == Len(s)
      pos(i) == 1 + Cardinality({ j \in 1..n :
                       LexGt(keys[j], keys[i]) \/ (keys[j] = keys[i] /\ j < i) })
  IN  [p \in 1..n |-> s[CHOOSE i \in 1..n : pos(i) = p]]

(***************************************************************************)
(* analysis_tool, mean-based variant (IGotYou_Agent/sub_Agents)            *)
(***************************************************************************)
RECURSIVE SumReviews(_)
\* count_reviews: the loop over ALL of cands, before any candidate is rejected
SumReviews(cs) ==
  IF cs = <<>> THEN 0 ELSE Get(Head(cs), "reviews", 0) + SumReviews(Tail(cs))

\* rev <= mean_value * num / den, where mean_value = count_reviews / n;
\* the quotient is compared exactly (rev, count_reviews and n are integers)
LeMean(rev, count_reviews, n, num, den) == rev * n * den <= count_reviews * num

\* the chain without the floor of 10 reviews on the first two tiers
TierScore_NoFloor(p, count_reviews, n) ==
  LET rev  == Get(p, "reviews", 0)
      rate == Get(p, "rating", 0)
  IN  IF rate >= 35
      THEN IF LeMean(rev, count_reviews, n, 1, 2)
           THEN [hit |-> TRUE, score |-> 2]
           ELSE IF LeMean(rev, count_reviews, n, 1, 1)
           THEN [hit |-> TRUE, score |-> 1]
           ELSE IF LeMean(rev, count_reviews, n, 2, 1) /\ rate >= 45
           THEN [hit |-> TRUE, score |-> 0]
           ELSE [hit |-> FALSE, score |-> 0]
      ELSE [hit |-> FALSE, score |-> 0]

\* the if/elif chain of the tier pass for one non-business candidate
TierScore(p, count_reviews, n) ==
  LET rev  == Get(p, "reviews", 0)
      rate == Get(p, "rating", 0)
  IN  IF rate >= 35
      THEN IF 10 <= rev /\ LeMean(rev, count_reviews, n, 1, 2)
           THEN [hit |-> TRUE, score |-> 2]
           ELSE IF 10 <= rev /\ LeMean(rev, count_reviews, n, 1, 1)
           THEN [hit |-> TRUE, score |-> 1]
           ELSE IF LeMean(rev, count_reviews, n, 2, 1) /\ rate >= 45
           THEN [hit |-> TRUE, score |-> 0]
           ELSE [hit |-> FALSE, score |-> 0]
      ELSE [hit |-> FALSE, score |-> 0]

\* the first loop: for each candidate, whether it is appended and with what score
TierPass(cs) ==
  LET count_reviews == SumReviews(cs)
  IN  [i \in 1..Len(cs) |->
         IF IsBusiness(cs[i]) THEN [hit |-> FALSE, score |-> 0]
         ELSE TierScore(cs[i], count_reviews, Len(cs))]

\* the second loop's condition with the threshold of the last tier (4.5)
FallbackHit_Rating45(p) == ~IsBusiness(p) /\ Get(p, "rating", 0) >= 45

\* the second loop's condition
FallbackHit(p) == ~IsBusiness(p) /\ Get(p, "rating", 0) >= 40

\* the second loop, which runs when the first appended nothing
FallbackPass(cs) ==
  [i \in 1..Len(cs) |-> [hit |-> FallbackHit(cs[i]), score |-> -1]]

\* the passes without the second loop
Passes_NoFallback(cs) == TierPass(cs)

\* the pass whose candidates make up potential_hidden_gems
Passes(cs) ==
  LET tier == TierPass(cs)
  IN  IF \E i \in 1..Len(cs) : tier[i].hit THEN tier ELSE FallbackPass(cs)

\* the indexes i with hits[i], in list order
Picked(hits) ==
  LET idx == [i \in 1..Len(hits) |-> i]
  IN  SelectSeq(idx, LAMBDA i : hits[i])

\* potential_hidden_gems, as indexes into cands, in append order
PotentialHiddenGems(cs) ==
  LET pass == Passes(cs)
  IN  Picked([i \in 1..Len(cs) |-> pass[i].hit])

\* the candidates when both loops are over (p['score'] = ... writes into the input dict)
Scored(cs) ==
  LET pass == Passes(cs)
  IN  [i \in 1..Len(cs) |->
         IF pass[i].hit THEN Put(cs[i], "score", pass[i].score) ELSE cs[i]]

\* the sorted list without the [:3]
Top3Gems_NoTruncation(cs) ==
  LET phg    == PotentialHiddenGems(cs)
      sc     == Scored(cs)
      keys   == [k \in 1..Len(phg) |-> <<Get(sc[phg[k]], "score", 0), sc[phg[k]]["rating"]>>]
  IN  SortDesc(phg, keys)

\* potential_hidden_gems.sort(key=(score, rating), reverse=True)[:3], as indexes
Top3Gems(cs) ==
  LET phg    == PotentialHiddenGems(cs)
      sc     == Scored(cs)
      keys   == [k \in 1..Len(phg) |-> <<Get(sc[phg[k]], "score", 0), sc[phg[k]]["rating"]>>]
      sorted == SortDesc(phg, keys)
  IN  SubSeq(sorted, 1, Min(3, Len(sorted)))

\* the places of which the Maps service holds no photo
PhotolessPids == {"p1", "p7"}

\* gmaps_client.place(place_id=...)['result'] for a place id whose fetch succeeds
PlaceResult(pid) ==
  [name |-> pid,
   photos |-> IF pid \in PhotolessPids THEN <<>> ELSE <<[photo_reference |-> pid]>>]

\* the URL built from a photo reference and the API key
PhotoUrl(photo) == "https://maps.googleapis.com/maps/api/place/photo?" \o photo.photo_reference

\* photo_url: the URL of the first photo (the API key being set), else ""
FirstPhotoUrl(res) ==
  IF res.photos # <<>> THEN PhotoUrl(res.photos[1]) ELSE ""

\* photo_urls if photo_urls else [placeholder]
PhotoUrlsOrPlaceholder(res) ==
  LET photo_urls == [k \in 1..Min(5, Len(res.photos)) |-> PhotoUrl(res.photos[k])]
  IN  IF photo_urls # <<>> THEN photo_urls
      ELSE <<"https://images.unsplash.com/photo-1559827260-dc66d52bef19?w=800">>

RECURSIVE FetchDetails(_, _, _)
\* the for loop over top_3_gems; gems is the list of dicts, acc the result so far
FetchDetails(gems, failing, acc) ==
  IF gems = <<>> THEN [raised |-> FALSE, gems |-> acc]
  ELSE LET gem == Head(gems)
           \* inside try: gem['place_id'] fetched, then gem['rating'], gem['reviews'] read
           fails == \/ gem["place_id"] \in failing
                    \/ ~Has(gem, "rating")
                    \/ ~Has(gem, "reviews")
       IN  IF ~Has(gem, "place_id")
           THEN FetchDetails(Tail(gems), failing, acc)
           ELSE IF fails
           THEN \* except Exception: print(f"... {gem['name']} ...")
                IF Has(gem, "name")
                THEN FetchDetails(Tail(gems), failing, acc)
                ELSE [raised |-> TRUE, gems |-> <<>>]
           ELSE FetchDetails(Tail(gems), failing,
                  Append(acc, [name         |-> PlaceResult(gem["place_id"]).name,
                               rating       |-> gem["rating"],
                               review_count |-> gem["reviews"],
                               photo_url    |-> FirstPhotoUrl(PlaceResult(gem["place_id"]))]))

NoOut == [kind |-> "none", status |-> "none", gems |-> <<>>, top |-> <<>>]

\* the value analysis_tool (mean-based) produces for the list cs
AnalysisToolMean(cs, client) ==
  IF ~client.configured
  THEN \* return [{"error": "APIKey missing"}]
       [kind |-> "return", status |-> "no_status", gems |-> <<>>, top |-> <<>>]
  ELSE IF PotentialHiddenGems(cs) = <<>>
  THEN [kind |-> "return", status |-> "zero_gems", gems |-> <<>>, top |-> <<>>]
  ELSE LET sc  == Scored(cs)
           t3  == Top3Gems(cs)
           top == [k \in 1..Len(t3) |-> sc[t3[k]]]
           f   == FetchDetails(top, client.failing, <<>>)
       IN  IF f.raised
           THEN [kind |-> "raise", status |-> "none", gems |-> <<>>, top |-> top]
           ELSE [kind |-> "return", status |-> "success", gems |-> f.gems, top |-> top]

\* what the call leaves in the caller's candidate dicts
CandsAfterMean(cs, client) == IF client.configured THEN Scored(cs) ELSE cs

(***************************************************************************)
(* analysis_tool, fixed-300 variant (IGotYou/sub_agents)                   *)
(***************************************************************************)
MAX_REVIEW_COUNT == 300

\* potential_gems, were the selection to ask for a rating of 3.5 as well
PotentialGems300_RatingGate(cs) ==
  Picked([i \in 1..Len(cs) |-> /\ Get(cs[i], "reviews", 0) < MAX_REVIEW_COUNT
                                /\ Get(cs[i], "rating", 0) >= 35])

\* potential_gems, as indexes into cands
PotentialGems300(cs) ==
  Picked([i \in 1..Len(cs) |-> Get(cs[i], "reviews", 0) < MAX_REVIEW_COUNT])

\* potential_gems.sort(key=rating, reverse=True)[:3], as indexes
TopGems300(cs) ==
  LET pg     == PotentialGems300(cs)
      keys   == [k \in 1..Len(pg) |-> <<Get(cs[pg[k]], "rating", 0)>>]
      sorted == SortDesc(pg, keys)
  IN  SubSeq(sorted, 1, Min(3, Len(sorted)))

RECURSIVE FetchDetails300(_, _, _)
\* the for loop over top_gems: every failure inside the try skips that gem alone
FetchDetails300(gems, failing, acc) ==
  IF gems = <<>> THEN acc
  ELSE LET gem == Head(gems)
       IN  IF ~Has(gem, "place_id") \/ gem["place_id"] \in failing
           THEN FetchDetails300(Tail(gems), failing, acc)
           ELSE FetchDetails300(Tail(gems), failing,
                  Append(acc, [name         |-> PlaceResult(gem["place_id"]).name,
                               rating       |-> Get(gem, "rating", 0),
                               review_count |-> Get(gem, "reviews", 0),
                               photo_urls   |-> PhotoUrlsOrPlaceholder(PlaceResult(gem["place_id"]))]))

\* the value analysis_tool (fixed-300) produces for the list cs
AnalysisTool300(cs, client) ==
  IF ~client.configured
  THEN [kind |-> "return", status |-> "error", gems |-> <<>>, top |-> <<>>]
  ELSE IF cs = <<>> \/ PotentialGems300(cs) = <<>>
  THEN [kind |-> "return", status |-> "zero_gems", gems |-> <<>>, top |-> <<>>]
  ELSE LET t3  == TopGems300(cs)
           top == [k \in 1..Len(t3) |-> cs[t3[k]]]
       IN  [kind |-> "return", status |-> "success",
            gems |-> FetchDetails300(top, client.failing, <<>>), top |-> top]

(***************************************************************************)
(* The text the backend decodes, as the sequence of its lexical units: the *)
(* punctuation of JSON, string literals, numbers (in tenths), the literals *)
(* true/false/null, white space, the Markdown fence and words of prose.     *)
(***************************************************************************)
Punct(c) == [k |-> "p", v |-> c, n |-> 0]
Quoted(s) == [k |-> "str", v |-> s, n |-> 0]
NumTok(n) == [k |-> "num", v |-> "", n |-> n]
Word(w) == [k |-> "word", v |-> w, n |-> 0]
LitTok(l) == [k |-> "lit", v |-> l, n |-> 0]
Space(w) == [k |-> "ws", v |-> w, n |-> 0]

LB == Punct("{")
RB == Punct("}")
LBRACK == Punct("[")
RBRACK == Punct("]")
COLON == Punct(":")
COMMA == Punct(",")
FENCE == Punct("fence")
SP == Space(" ")
NL == Space("\n")

IsWs(tok) == tok.k = "ws"

(***************************************************************************)
(* JSON values: what json.loads builds.  A value is a record of its type t *)
(* and, by type, its text s, its number n (in tenths), its items a or its  *)
(* dict d, a function from keys; the fields of the other types are empty.  *)
(***************************************************************************)
EmptyDict == [x \in {} |-> 0]

Str(s) == [t |-> "str", s |-> s, n |-> 0, a |-> <<>>, d |-> EmptyDict]
Num(n) == [t |-> "num", s |-> "", n |-> n, a |-> <<>>, d |-> EmptyDict]
Lit(l) == [t |-> "lit", s |-> l, n |-> 0, a |-> <<>>, d |-> EmptyDict]
Arr(a) == [t |-> "arr", s |-> "", n |-> 0, a |-> a, d |-> EmptyDict]
Obj(d) == [t |-> "obj", s |-> "", n |-> 0, a |-> <<>>, d |-> d]

NoDecoded == [kind |-> "none", val |-> Lit("null")]

\* no response yet
NoResponse == <<>>

\* the endpoint was not called
NoHttp == [kind |-> "none", code |-> 0, body |-> Lit("null")]

\* no conversation is under study
NoSession ==
  [package |-> "none", phase |-> "none", replies |-> <<>>, ran |-> <<>>,
   filter_status |-> "none", days_ahead |-> 0, weather_calls |-> 0, advice |-> "none",
   turns |-> <<>>, gems_for |-> "none"]

\* the first index >= i of toks that holds no white space (Len + 1 when none)
RECURSIVE SkipWs(_, _)
SkipWs(toks, i) ==
  IF i <= Len(toks) /\ IsWs(toks[i]) THEN SkipWs(toks, i + 1) ELSE i

Fail == [ok |-> FALSE, val |-> Lit("null"), next |-> 0]

RECURSIVE ParseValue(_, _)
RECURSIVE ParseMembers(_, _, _)
RECURSIVE ParseElements(_, _, _)

\* json's scanner: the value that starts at toks[i]
ParseValue(toks, i) ==
  IF i > Len(toks) THEN Fail
  ELSE LET tok == toks[i]
       IN  CASE tok.k = "str" -> [ok |-> TRUE, val |-> Str(tok.v), next |-> i + 1]
             [] tok.k = "num" -> [ok |-> TRUE, val |-> Num(tok.n), next |-> i + 1]
             [] tok.k = "lit" -> [ok |-> TRUE, val |-> Lit(tok.v), next |-> i + 1]
             [] tok = LB ->
                  LET j == SkipWs(toks, i + 1)
                  IN  IF j <= Len(toks) /\ toks[j] = RB
                      THEN [ok |-> TRUE, val |-> Obj(EmptyDict), next |-> j + 1]
                      ELSE ParseMembers(toks, j, EmptyDict)
             [] tok = LBRACK ->
                  LET j == SkipWs(toks, i + 1)
                  IN  IF j <= Len(toks) /\ toks[j] = RBRACK
                      THEN [ok |-> TRUE, val |-> Arr(<<>>), next |-> j + 1]
                      ELSE ParseElements(toks, j, <<>>)
             [] OTHER -> Fail

\* JSONObject: "key" : value pairs from toks[i] on, up to the closing brace
ParseMembers(toks, i, acc) ==
  IF i > Len(toks) \/ toks[i].k # "str" THEN Fail
  ELSE LET c == SkipWs(toks, i + 1)
       IN  IF c > Len(toks) \/ toks[c] # COLON THEN Fail
           ELSE LET r == ParseValue(toks, SkipWs(toks, c + 1))
                IN  IF ~r.ok THEN Fail
                    ELSE LET d == Put(acc, toks[i].v, r.val)
                             e == SkipWs(toks, r.next)
                         IN  IF e > Len(toks) THEN Fail
                             ELSE IF toks[e] = RB
                             THEN [ok |-> TRUE, val |-> Obj(d), next |-> e + 1]
                             ELSE IF toks[e] = COMMA
                             THEN ParseMembers(toks, SkipWs(toks, e + 1), d)
                             ELSE Fail

\* JSONArray: values from toks[i] on, up to the closing bracket
ParseElements(toks, i, acc) ==
  LET r == ParseValue(toks, i)
  IN  IF ~r.ok THEN Fail
      ELSE LET a == Append(acc, r.val)
               e == SkipWs(toks, r.next)
           IN  IF e > Len(toks) THEN Fail
               ELSE IF toks[e] = RBRACK
               THEN [ok |-> TRUE, val |-> Arr(a), next |-> e + 1]
               ELSE IF toks[e] = COMMA
               THEN ParseElements(toks, SkipWs(toks, e + 1), a)
               ELSE Fail

\* json.loads: one value, white space around it, nothing after it
JsonLoads(toks) ==
  LET r == ParseValue(toks, SkipWs(toks, 1))
  IN  IF r.ok /\ SkipWs(toks, r.next) > Len(toks)
      THEN [ok |-> TRUE, val |-> r.val]
      ELSE [ok |-> FALSE, val |-> Lit("null")]

(***************************************************************************)
(* parse_agent_response (backend/main.py)                                  *)
(***************************************************************************)
\* str.strip()
RECURSIVE Strip(_)
Strip(toks) ==
  IF toks = <<>> THEN toks
  ELSE IF IsWs(Head(toks)) THEN Strip(Tail(toks))
  ELSE IF IsWs(toks[Len(toks)]) THEN Strip(SubSeq(toks, 1, Len(toks) - 1))
  ELSE toks

NoMatch == [found |-> FALSE, from |-> 0, to |-> 0]

\* the least element of a non-empty set of indexes
Least(I) == CHOOSE i \in I : \A j \in I : i <= j

\* the fenced block with a greedy body: up to the last closing brace that is
\* followed by white space and a fence
FencedBlock_Greedy(toks) ==
  LET open(s) == IF s + 1 <= Len(toks) /\ toks[s + 1] = Word("json")
                 THEN SkipWs(toks, s + 2) ELSE SkipWs(toks, s + 1)
      ends(s) == { e \in (open(s) + 1)..Len(toks) :
                     /\ toks[e] = RB
                     /\ SkipWs(toks, e + 1) <= Len(toks)
                     /\ toks[SkipWs(toks, e + 1)] = FENCE }
      starts == { s \in 1..Len(toks) :
                    /\ toks[s] = FENCE
                    /\ open(s) <= Len(toks)
                    /\ toks[open(s)] = LB
                    /\ ends(s) # {} }
      last(I) == CHOOSE i \in I : \A j \in I : j <= i
  IN  IF starts = {} THEN NoMatch
      ELSE [found |-> TRUE, from |-> open(Least(starts)), to |-> last(ends(Least(starts)))]

\* re.search(r'[fence](?:json)?\s*(\{.*?\})\s*[fence]', text, re.DOTALL): group(1), [fence] being three backquotes.
\* The leftmost fence that is followed (after an optional json tag and white
\* space) by a brace; from that brace lazily to the first closing brace that
\* is followed by white space and a fence.
FencedBlock(toks) ==
  LET open(s) == IF s + 1 <= Len(toks) /\ toks[s + 1] = Word("json")
                 THEN SkipWs(toks, s + 2) ELSE SkipWs(toks, s + 1)
      ends(s) == { e \in (open(s) + 1)..Len(toks) :
                     /\ toks[e] = RB
                     /\ SkipWs(toks, e + 1) <= Len(toks)
                     /\ toks[SkipWs(toks, e + 1)] = FENCE }
      starts == { s \in 1..Len(toks) :
                    /\ toks[s] = FENCE
                    /\ open(s) <= Len(toks)
                    /\ toks[open(s)] = LB
                    /\ ends(s) # {} }
  IN  IF starts = {} THEN NoMatch
      ELSE [found |-> TRUE, from |-> open(Least(starts)), to |-> Least(ends(Least(starts)))]

\* re.search(r'\{\s*"gems"\s*:\s*\[.*?\]\s*\}', text, re.DOTALL): group(0).
\* The leftmost brace that opens on the key "gems" and a bracket; from that
\* bracket lazily to the first closing bracket that is followed by white
\* space and a closing brace.
GemsSpan(toks) ==
  LET key(a) == SkipWs(toks, a + 1)
      col(a) == SkipWs(toks, key(a) + 1)
      brk(a) == SkipWs(toks, col(a) + 1)
      opens(a) == /\ toks[a] = LB
                  /\ key(a) <= Len(toks) /\ toks[key(a)] = Quoted("gems")
                  /\ col(a) <= Len(toks) /\ toks[col(a)] = COLON
                  /\ brk(a) <= Len(toks) /\ toks[brk(a)] = LBRACK
      ends(a) == { e \in (brk(a) + 1)..Len(toks) :
                     /\ toks[e] = RBRACK
                     /\ SkipWs(toks, e + 1) <= Len(toks)
                     /\ toks[SkipWs(toks, e + 1)] = RB }
      starts == { a \in 1..Len(toks) : opens(a) /\ ends(a) # {} }
  IN  IF starts = {} THEN NoMatch
      ELSE LET a == Least(starts)
           IN  [found |-> TRUE, from |-> a, to |-> SkipWs(toks, Least(ends(a)) + 1)]

\* json_str[json_str.find('{'):], the whole text when it holds no brace
FromFirstBrace(toks) ==
  LET braces == { i \in 1..Len(toks) : toks[i] = LB }
  IN  IF braces = {} THEN toks ELSE SubSeq(toks, Least(braces), Len(toks))

\* the text json.loads is given: the if / else chain of the three searches
JsonStr(response_text) ==
  LET fenced == FencedBlock(response_text)
      span   == GemsSpan(response_text)
  IN  IF fenced.found THEN SubSeq(response_text, fenced.from, fenced.to)
      ELSE IF span.found THEN SubSeq(response_text, span.from, span.to)
      ELSE FromFirstBrace(response_text)

\* {"gems": []}
EmptyGems == Obj(Put(EmptyDict, "gems", Arr(<<>>)))

\* the body of the try block: the value it returns, or the exception it raises
TryBody(raw_response) ==
  LET response_text == Strip(raw_response)
      loaded        == JsonLoads(JsonStr(response_text))
  IN  IF ~loaded.ok
      THEN [exc |-> "JSONDecodeError", val |-> Lit("null")]
      ELSE IF loaded.val.t # "obj"
      THEN \* parsed_data.keys() on a list, a number, a string, None
           [exc |-> "AttributeError", val |-> Lit("null")]
      ELSE IF Has(loaded.val.d, "gems") /\ loaded.val.d["gems"].t = "arr"
      THEN [exc |-> "none", val |-> loaded.val]
      ELSE [exc |-> "none", val |-> EmptyGems]

\* parse_agent_response(raw_response, query) with its two except clauses
parse_agent_response(raw_response) ==
  LET body == TryBody(raw_response)
  IN  IF body.exc = "none" THEN [kind |-> "return", val |-> body.val]
      ELSE IF body.exc = "JSONDecodeError" THEN [kind |-> "return", val |-> EmptyGems]
      ELSE \* except Exception
           [kind |-> "return", val |-> EmptyGems]

(***************************************************************************)
(* json.dumps of a result.  A dict to be written has its keys in insertion *)
(* order: type "odict", the keys in order in a, the values in d.           *)
(***************************************************************************)
\* the dict written as the (key, value) pairs given, in that order
ODict(pairs) ==
  [t |-> "odict", s |-> "", n |-> 0,
   a |-> [i \in 1..Len(pairs) |-> Str(pairs[i][1])],
   d |-> [key \in { pairs[i][1] : i \in 1..Len(pairs) } |->
            pairs[CHOOSE i \in 1..Len(pairs) : pairs[i][1] = key][2]]]

RECURSIVE Dumps(_)
RECURSIVE DumpsList(_)
RECURSIVE DumpsDict(_, _)
\* the items of a list, separated by ", "
DumpsList(items) ==
  IF items = <<>> THEN <<>>
  ELSE IF Len(items) = 1 THEN Dumps(Head(items))
  ELSE Dumps(Head(items)) \o <<COMMA, SP>> \o DumpsList(Tail(items))

\* the "key": value items of a dict, in the order of keys, separated by ", "
DumpsDict(keys, d) ==
  IF keys = <<>> THEN <<>>
  ELSE LET item == <<Quoted(Head(keys).s), COLON, SP>> \o Dumps(d[Head(keys).s])
       IN  IF Len(keys) = 1 THEN item
           ELSE item \o <<COMMA, SP>> \o DumpsDict(Tail(keys), d)

\* json.dumps(v), default separators
Dumps(v) ==
  CASE v.t = "str" -> <<Quoted(v.s)>>
    [] v.t = "num" -> <<NumTok(v.n)>>
    [] v.t = "lit" -> <<LitTok(v.s)>>
    [] v.t = "arr" -> <<LBRACK>> \o DumpsList(v.a) \o <<RBRACK>>
    [] v.t = "odict" -> <<LB>> \o DumpsDict(v.a, v.d) \o <<RB>>

RECURSIVE AsDict(_)
\* the value itself, key order forgotten: what the written dict compares equal to
AsDict(v) ==
  CASE v.t = "arr" -> Arr([i \in 1..Len(v.a) |-> AsDict(v.a[i])])
    [] v.t = "odict" -> Obj([key \in DOMAIN v.d |-> AsDict(v.d[key])])
    [] OTHER -> v

(***************************************************************************)
(* parse_markdown_response: the Markdown fallback parser.  The markers its *)
(* patterns look for are single lexical units: HASHES is "###", ItemNo(k)  *)
(* is "k.", STAR, PERSON, PIN, BULB and MAP are the pictographs written in *)
(* the patterns, LPAREN is "(", BOLD is the two asterisks, and the labels  *)
(* are the literal texts of the patterns between their asterisks.          *)
(***************************************************************************)
HASHES == Word("###")
ItemNo(k) == [k |-> "item", v |-> "", n |-> k]
STAR == Word("[star]")
PERSON == Word("[person]")
PIN == Word("[pin]")
BULB == Word("[bulb]")
MAP == Word("[map]")
LPAREN == Punct("(")
BOLD == Word("**")
LOCATION == Word("Location:")
WHYLABEL == Word("Why it's a Hidden Gem:")
TIPLABEL == Word("Insider Tip:")

\* a Python str cut out of the text: its lexical units, as values
TokValue(tok) == [t |-> "tok", s |-> tok.v, n |-> tok.n, a |-> <<Str(tok.k)>>, d |-> EmptyDict]

Text(toks) ==
  [t |-> "text", s |-> "", n |-> 0, a |-> [i \in 1..Len(toks) |-> TokValue(toks[i])],
   d |-> EmptyDict]

\* the last index of the run of units from i on that are neither a newline nor
\* (when parenStops) an opening parenthesis; i - 1 when toks[i] is such a unit
RECURSIVE LineEnd(_, _, _)
LineEnd(toks, i, parenStops) ==
  IF i > Len(toks) \/ toks[i] = NL \/ (parenStops /\ toks[i] = LPAREN) THEN i - 1
  ELSE LineEnd(toks, i + 1, parenStops)

\* \s*([^\n]+) or \s*([^\n(]+) tried at index a: the white space is taken
\* greedily and given back unit by unit until the group can start
LineCapture(toks, a, parenStops) ==
  LET j == SkipWs(toks, a)
      spaces == { p \in a..(j - 1) : toks[p] # NL }
  IN  IF j <= Len(toks) /\ ~(parenStops /\ toks[j] = LPAREN)
      THEN [found |-> TRUE, from |-> j, to |-> LineEnd(toks, j, parenStops)]
      ELSE IF spaces # {}
      THEN LET p == CHOOSE q \in spaces : \A r \in spaces : r <= q
           IN  [found |-> TRUE, from |-> p, to |-> LineEnd(toks, p, parenStops)]
      ELSE NoMatch

\* (?!\*\*|[pin]|[map]|###): the units a continuation line may not start with
StartsBlock(tok) == tok \in {BOLD, PIN, MAP, HASHES}

\* (?:\n(?![markers])[^\n]+)* after a first line that ends at index e
RECURSIVE Continuation(_, _)
Continuation(toks, e) ==
  IF /\ e + 2 <= Len(toks)
     /\ toks[e + 1] = NL
     /\ toks[e + 2] # NL
     /\ ~StartsBlock(toks[e + 2])
  THEN Continuation(toks, LineEnd(toks, e + 2, FALSE))
  ELSE e

\* ###\s*\d+\.\s*([^\n(]+) tried at index i
PlaceAt(toks, i) ==
  LET k == SkipWs(toks, i + 1)
  IN  IF toks[i] = HASHES /\ k <= Len(toks) /\ toks[k].k = "item"
      THEN LineCapture(toks, k + 1, TRUE)
      ELSE NoMatch

\* [star]\s*([\d.]+) tried at index i: the number, in tenths
RatingAt(toks, i) ==
  LET j == SkipWs(toks, i + 1)
  IN  IF toks[i] = STAR /\ j <= Len(toks) /\ toks[j].k \in {"num", "item"}
      THEN [found |-> TRUE, from |-> j, to |-> j]
      ELSE NoMatch

\* [person]\s*(\d+)\s*reviews? tried at index i
ReviewAt(toks, i) ==
  LET j == SkipWs(toks, i + 1)
      w == SkipWs(toks, j + 1)
  IN  IF /\ toks[i] = PERSON
         /\ j <= Len(toks) /\ toks[j].k = "num" /\ toks[j].n % 10 = 0
         /\ w <= Len(toks) /\ toks[w] \in {Word("review"), Word("reviews")}
      THEN [found |-> TRUE, from |-> j, to |-> j]
      ELSE NoMatch

\* [pin]\s*Location:\s*([^\n]+) tried at index i
AddressAt(toks, i) ==
  LET l == SkipWs(toks, i + 1)
  IN  IF toks[i] = PIN /\ l <= Len(toks) /\ toks[l] = LOCATION
      THEN LineCapture(toks, l + 1, FALSE)
      ELSE NoMatch

\* the first line of a labelled section and its continuation lines
SectionCapture(toks, a) ==
  LET first == LineCapture(toks, a, FALSE)
  IN  IF first.found
      THEN [found |-> TRUE, from |-> first.from, to |-> Continuation(toks, first.to)]
      ELSE NoMatch

\* \*\*Why it's a Hidden Gem:\*\*\s*(...) tried at index i
WhyAt(toks, i) ==
  IF i + 2 <= Len(toks) /\ toks[i] = BOLD /\ toks[i + 1] = WHYLABEL /\ toks[i + 2] = BOLD
  THEN SectionCapture(toks, i + 3)
  ELSE NoMatch

\* [bulb]\s*Insider Tip:\*\*\s*(...) tried at index i
TipAt(toks, i) ==
  LET l == SkipWs(toks, i + 1)
  IN  IF toks[i] = BULB /\ l + 1 <= Len(toks) /\ toks[l] = TIPLABEL /\ toks[l + 1] = BOLD
      THEN SectionCapture(toks, l + 2)
      ELSE NoMatch

\* the pattern of the kind given, tried at index i
MatchAt(kind, toks, i) ==
  CASE kind = "place"   -> PlaceAt(toks, i)
    [] kind = "rating"  -> RatingAt(toks, i)
    [] kind = "review"  -> ReviewAt(toks, i)
    [] kind = "address" -> AddressAt(toks, i)
    [] kind = "why"     -> WhyAt(toks, i)
    [] kind = "tip"     -> TipAt(toks, i)

\* re.findall: the groups of the successive matches, left to right, a search
\* resuming where the match before it ended
RECURSIVE FindAll(_, _, _, _)
FindAll(kind, toks, i, acc) ==
  LET starts == { j \in i..Len(toks) : MatchAt(kind, toks, j).found }
  IN  IF starts = {} THEN acc
      ELSE LET m == MatchAt(kind, toks, Least(starts))
           IN  FindAll(kind, toks, m.to + 1, Append(acc, SubSeq(toks, m.from, m.to)))

\* bool(v) of a value
Truthy(v) ==
  CASE v.t = "str"  -> v.s # ""
    [] v.t = "num"  -> v.n # 0
    [] v.t = "lit"  -> v.s = "true"
    [] v.t = "obj"  -> DOMAIN v.d # {}
    [] v.t = "fstr" -> TRUE
    [] OTHER        -> v.a # <<>>

\* the str values that float() and int() accept, with their value in tenths
NumericStrings == [s \in {"4.5", "12"} |-> IF s = "4.5" THEN 45 ELSE 120]

\* float(v): the number in tenths, or the exception
ToFloat(v) ==
  CASE v.t = "num" -> [raised |-> FALSE, val |-> Num(v.n)]
    [] v.t = "lit" /\ v.s \in {"true", "false"} ->
         [raised |-> FALSE, val |-> Num(IF v.s = "true" THEN 10 ELSE 0)]
    [] v.t = "str" /\ v.s \in DOMAIN NumericStrings ->
         [raised |-> FALSE, val |-> Num(NumericStrings[v.s])]
    [] OTHER -> [raised |-> TRUE, val |-> Lit("null")]

\* int(v): truncation toward zero of a number; a str must hold an integer
ToInt(v) ==
  CASE v.t = "num" ->
         [raised |-> FALSE,
          val |-> Num(IF v.n >= 0 THEN (v.n \div 10) * 10 ELSE -(((-v.n) \div 10) * 10))]
    [] v.t = "lit" /\ v.s \in {"true", "false"} ->
         [raised |-> FALSE, val |-> Num(IF v.s = "true" THEN 10 ELSE 0)]
    [] v.t = "str" /\ v.s \in DOMAIN NumericStrings /\ NumericStrings[v.s] % 10 = 0 ->
         [raised |-> FALSE, val |-> Num(NumericStrings[v.s])]
    [] OTHER -> [raised |-> TRUE, val |-> Lit("null")]

\* v == 0
IsZero(v) == v = Num(0) \/ v = Lit("false")

\* d.get(k, dflt) on a dict value
GetV(v, k, dflt) == IF k \in DOMAIN v.d THEN v.d[k] ELSE dflt

\* {"lat": lat, "lng": lng}
LatLng(lat, lng) == Obj(Put(Put(EmptyDict, "lat", lat), "lng", lng))

\* the map URLs that hold a pair @lat,lng or !lat,lng with decimals, and the pair
UrlCoordinates ==
  [url \in {"https://maps.example/@48.1,11.5"} |-> LatLng(Num(481), Num(115))]

PLACEHOLDER_PHOTO == Str("https://images.unsplash.com/photo-1559827260-dc66d52bef19?w=800")

\* extract_analysis_from_markdown(place_name, markdown_text): it never raises
\* (its body is a try block) and its result is a function of its arguments,
\* kept as the application itself; the one caller of transform_gem_format
\* overwrites it
ExtractAnalysis(place_name, markdown_text) ==
  [t |-> "call", s |-> "extract_analysis_from_markdown", n |-> 0,
   a |-> <<place_name, Text(markdown_text)>>, d |-> EmptyDict]

\* transform_gem_format(gem, full_response): the dict it returns, or the exception
TransformGemFormat(gem, full_response) ==
  LET zero == Num(0)
      loc  == GetV(gem, "loc", Lit("null"))
      fromLoc == [lat |-> ToFloat(GetV(loc, "lat", zero)), lng |-> ToFloat(GetV(loc, "lng", zero))]
      \* coordinates after the first if / elif
      first ==
        IF Has(gem.d, "loc") /\ Truthy(loc)
        THEN IF loc.t = "obj"
             THEN IF fromLoc.lat.raised \/ fromLoc.lng.raised
                  THEN [raised |-> TRUE, val |-> Lit("null")]
                  ELSE [raised |-> FALSE, val |-> LatLng(fromLoc.lat.val, fromLoc.lng.val)]
             ELSE [raised |-> FALSE, val |-> LatLng(zero, zero)]
        ELSE IF Has(gem.d, "coordinates")
        THEN [raised |-> FALSE, val |-> gem.d["coordinates"]]
        ELSE [raised |-> FALSE, val |-> LatLng(zero, zero)]
      \* coordinates["lat"] == 0 and coordinates["lng"] == 0
      subscriptable == /\ first.val.t = "obj" /\ Has(first.val.d, "lat")
                       /\ (IsZero(first.val.d["lat"]) => Has(first.val.d, "lng"))
      bothZero == IsZero(first.val.d["lat"]) /\ IsZero(first.val.d["lng"])
      map_url  == GetV(gem, "map_url", Str(""))
      \* re.search on map_url needs a str
      urlRaises == Truthy(map_url) /\ map_url.t # "str"
      coordinates ==
        IF bothZero /\ Truthy(map_url) /\ map_url.s \in DOMAIN UrlCoordinates
        THEN UrlCoordinates[map_url.s] ELSE first.val
      place_name == GetV(gem, "name", GetV(gem, "placeName", Str("")))
      photos == IF Truthy(map_url) THEN Arr(<<map_url, PLACEHOLDER_PHOTO>>)
                ELSE Arr(<<PLACEHOLDER_PHOTO>>)
      rating == ToFloat(GetV(gem, "rating", zero))
      reviewCount == ToInt(GetV(gem, "review_count",
                             GetV(gem, "reviewCount", GetV(gem, "reviews", zero))))
  IN  IF first.raised \/ ~subscriptable \/ (bothZero /\ urlRaises)
         \/ rating.raised \/ reviewCount.raised
      THEN [raised |-> TRUE, val |-> Lit("null")]
      ELSE [raised |-> FALSE,
            val |-> Obj(
              [key \in {"placeName", "address", "coordinates", "rating",
                        "reviewCount", "photos", "analysis"} |->
                 CASE key = "placeName" ->
                        IF Truthy(place_name) THEN place_name
                        ELSE GetV(gem, "placeName", Str("Unknown Place"))
                   [] key = "address" -> GetV(gem, "address", Str("Address not available"))
                   [] key = "coordinates" -> coordinates
                   [] key = "rating" -> rating.val
                   [] key = "reviewCount" -> reviewCount.val
                   [] key = "photos" -> photos
                   [] key = "analysis" -> ExtractAnalysis(place_name, full_response)])]

\* the i-th element of a findall result, stripped, or the default
StrippedOr(matches, i, dflt) ==
  IF i <= Len(matches) THEN Text(Strip(matches[i])) ELSE dflt

\* float() or int() of a captured number: a unit of kind num reads n tenths,
\* an item number k reads "k."
NumberOr(matches, i, dflt) ==
  IF i <= Len(matches)
  THEN LET tok == matches[i][1]
       IN  IF tok.k = "item" THEN Num(10 * tok.n) ELSE Num(tok.n)
  ELSE dflt

Max3(a, b, c) ==
  LET ab == IF a >= b THEN a ELSE b IN IF ab >= c THEN ab ELSE c

\* parse_markdown_response(markdown_text, query): the dict it returns
parse_markdown_response(markdown_text) ==
  LET place_matches   == FindAll("place", markdown_text, 1, <<>>)
      rating_matches  == FindAll("rating", markdown_text, 1, <<>>)
      review_matches  == FindAll("review", markdown_text, 1, <<>>)
      address_matches == FindAll("address", markdown_text, 1, <<>>)
      why_special_matches == FindAll("why", markdown_text, 1, <<>>)
      tip_matches     == FindAll("tip", markdown_text, 1, <<>>)
      max_gems == Max3(Len(place_matches), Len(address_matches), Len(why_special_matches))
      gem_dict(i) ==
        Obj([key \in {"name", "rating", "review_count", "address", "coordinates"} |->
               CASE key = "name" ->
                      StrippedOr(place_matches, i, Str("Place " \o ToString(i)))
                 [] key = "rating" -> NumberOr(rating_matches, i, Num(40))
                 [] key = "review_count" -> NumberOr(review_matches, i, Num(0))
                 [] key = "address" ->
                      StrippedOr(address_matches, i, Str("Address not available"))
                 [] key = "coordinates" -> LatLng(Num(0), Num(0))])
      analysis(i) ==
        Obj([key \in {"whySpecial", "bestTime", "insiderTip"} |->
               CASE key = "whySpecial" ->
                      StrippedOr(why_special_matches, i, Str("A hidden gem worth exploring"))
                 [] key = "bestTime" -> Str("Check local hours")
                 [] key = "insiderTip" ->
                      StrippedOr(tip_matches, i,
                        Str("Visit during off-peak hours for the best experience"))])
      transformed(i) == TransformGemFormat(gem_dict(i), markdown_text)
      gems == [i \in 1..max_gems |-> Obj(Put(transformed(i).val.d, "analysis", analysis(i)))]
  IN  IF \E i \in 1..max_gems : transformed(i).raised
      THEN EmptyGems
      ELSE Obj(Put(EmptyDict, "gems", Arr(gems)))

(***************************************************************************)
(* The retry settings.  Every agent hands its model an HttpRetryOptions    *)
(* value; the sub-agents share one setting and the two root agents         *)
(* another.  The loop that applies a setting to a model call is the        *)
(* client library's: an attempt is made, a failure whose status is in      *)
(* http_status_codes is tried again while attempts are left, any other     *)
(* failure and the last failure are raised.                                *)
(***************************************************************************)
TightPreset_FourAttempts ==
  [attempts |-> 4, exp_base |-> 2, initial_delay |-> 1, http_status_codes |-> {429, 500, 503}]

\* retry_config of the sub-agents
TightPreset ==
  [attempts |-> 3, exp_base |-> 2, initial_delay |-> 1, http_status_codes |-> {429, 500, 503}]

LoosePreset_No504 ==
  [attempts |-> 5, exp_base |-> 7, initial_delay |-> 1, http_status_codes |-> {429, 500, 503}]

\* retry_config of the root agents
LoosePreset ==
  [attempts |-> 5, exp_base |-> 7, initial_delay |-> 1,
   http_status_codes |-> {429, 500, 503, 504}]

Presets == {"tight", "loose"}

Policy(p) == IF p = "tight" THEN TightPreset ELSE LoosePreset

\* what one invocation of the model call can give: success, or a failure
\* with its HTTP status
OK == 200
Statuses == {429, 500, 503, 504, 400}
Outcomes == {OK} \cup Statuses

\* a failure the policy tries again
Retryable(p, status) == status \in Policy(p).http_status_codes

\* the state of the call after the invocations made so far
CallAfter(p, outcomes) ==
  LET last == outcomes[Len(outcomes)]
  IN  IF last = OK THEN "returned"
      ELSE IF Retryable(p, last) /\ Len(outcomes) < Policy(p).attempts THEN "pending"
      ELSE "raised"

\* no model call is under study
RetryIdle == preset = "tight" /\ history = <<>> /\ call = "idle"

InitRetry ==
  /\ preset \in Presets
  /\ history = <<>>
  /\ call = "pending"
  /\ given = <<>> /\ cands = <<>> /\ out = NoOut
  /\ gmaps_client = [configured |-> FALSE, failing |-> {}]
  /\ pc = "call"
  /\ raw = <<>> /\ canon = <<>> /\ decoded = NoDecoded
  /\ session = NoSession
  /\ http = NoHttp
  /\ response = NoResponse

\* one invocation of the model call under the policy
Invoke ==
  /\ pc \in {"call", "discover"}
  /\ call = "pending"
  /\ \E outcome \in Outcomes :
       /\ history' = Append(history, outcome)
       /\ call' = CallAfter(preset, history')
  /\ UNCHANGED <<filterVars, pc, decoderVars, preset, session, http, response>>

NextRetry == Invoke

SpecRetry == InitRetry /\ [][NextRetry]_vars

(***************************************************************************)
(* The root agents.  IGotYou/agent.py gives its root agent three tools:    *)
(* the clarification loop, the pipeline and the weather tool set;          *)
(* IGotYou_Agent/agent.py gives its root agent the pipeline and the        *)
(* weather tool set.  The root agent is a language model that follows the  *)
(* workflow of its instruction; the loop and the pipeline are workflow     *)
(* agents that run their sub-agents as declared.                           *)
(***************************************************************************)
Packages == {"IGotYou", "IGotYou_Agent"}

\* max_iterations of Intent_Understanding_Loop
MAX_ITERATIONS == 5

\* the root agent of IGotYou is told not to call the weather tool for a date
\* more than this many days ahead
FORECAST_HORIZON == 16

\* the traveller's date is at most this many days ahead
MaxDaysAhead == 20

\* sub_agents of the pipeline, in their order
PipelineStages == <<"DISCOVERY", "FILTER", "RECOMMEND">>

\* what the filter can hand to the stage after it
FilterStatuses == {"success", "fallback", "zero_gems"}

\* the event of a clarification reply carries the escalate action: the
\* clarification agent has no tool and no callback that could set it; the
\* marker is text of its reply
Escalates(marker) == FALSE

\* the loop is over after this reply: a sub-agent escalated, or the
\* iterations are used up
LoopOver(replies) ==
  Escalates(replies[Len(replies)]) \/ Len(replies) >= MAX_ITERATIONS

InitSession ==
  /\ \E p \in Packages :
       session = [NoSession EXCEPT !.package = p,
                                   !.phase = IF p = "IGotYou" THEN "INTENT" ELSE "DISCOVERY"]
  /\ given = <<>> /\ cands = <<>> /\ out = NoOut
  /\ gmaps_client = [configured |-> FALSE, failing |-> {}]
  /\ pc = "session"
  /\ raw = <<>> /\ canon = <<>> /\ decoded = NoDecoded
  /\ RetryIdle
  /\ http = NoHttp
  /\ response = NoResponse

\* one iteration of Intent_Understanding_Loop: the clarification agent
\* replies, with the marker [ESCALATE] in its text or without
Clarify ==
  /\ pc = "session"
  /\ session.phase = "INTENT"
  /\ \E marker \in BOOLEAN :
       LET replies == Append(session.replies, marker)
       IN  session' = [session EXCEPT
                         !.replies = replies,
                         !.phase = IF LoopOver(replies) THEN "DISCOVERY" ELSE "INTENT"]
  /\ UNCHANGED <<filterVars, pc, decoderVars, retryVars, http, response>>

\* the sub-agent of the pipeline that is next in the order runs; the
\* Analysis agent calls analysis_tool, whose status goes to the next stage
RunStage ==
  /\ pc = "session"
  /\ \E i \in 1..Len(PipelineStages) :
       /\ session.phase = PipelineStages[i]
       /\ \E status \in FilterStatuses :
            session' = [session EXCEPT
              !.ran = Append(session.ran, PipelineStages[i]),
              !.filter_status = IF PipelineStages[i] = "FILTER" THEN status ELSE @,
              !.phase = IF i < Len(PipelineStages) THEN PipelineStages[i + 1]
                        ELSE "AWAIT_SELECTION"]
  /\ UNCHANGED <<filterVars, pc, decoderVars, retryVars, http, response>>

\* the root agent calls the weather tool for this package and date
CallsWeather(package, days_ahead) ==
  IF package = "IGotYou" THEN days_ahead <= FORECAST_HORIZON ELSE TRUE

\* the user picks one of the gems for a date, and the root agent advises
SelectAndAdvise ==
  /\ pc = "session"
  /\ session.phase = "AWAIT_SELECTION"
  /\ session.filter_status # "zero_gems"
  /\ \E d \in 0..MaxDaysAhead :
       session' = [session EXCEPT
         !.days_ahead = d,
         !.weather_calls = IF CallsWeather(session.package, d) THEN @ + 1 ELSE @,
         !.advice = IF CallsWeather(session.package, d) THEN "forecast" ELSE "seasonal",
         !.phase = "CONVERSATION"]
  /\ UNCHANGED <<filterVars, pc, decoderVars, retryVars, http, response>>

NextSession == Clarify \/ RunStage \/ SelectAndAdvise

SpecSession == InitSession /\ [][NextSession]_vars

(***************************************************************************)
(* The inputs: candidate lists of at most MaxCands candidates of a pool    *)
(* that holds the cases of the filter, and the Maps client.                *)
(***************************************************************************)
MaxCands == 4

Tarn == [name |-> <<"T","a","r","n">>, types |-> {"park"},
         reviews |-> 50, rating |-> 42, place_id |-> "p1"]
Fell == [name |-> <<"F","e","l","l">>, types |-> {"park"},
         reviews |-> 20, rating |-> 48, place_id |-> "p2"]
Crag == [name |-> <<"C","r","a","g">>, types |-> {"natural_feature"},
         reviews |-> 900, rating |-> 49, place_id |-> "p3"]
OldInn == [name |-> <<"O","l","d"," ","I","N","N">>, types |-> {"park"},
           reviews |-> 15, rating |-> 47, place_id |-> "p4"]
Mesa == [name |-> <<"M","e","s","a">>, types |-> {"restaurant", "food"},
         reviews |-> 2000, rating |-> 45, place_id |-> "p5"]
Cove == [name |-> <<"C","o","v","e">>,
         reviews |-> 5, rating |-> 45, place_id |-> "p6"]
Glen == [name |-> <<"G","l","e","n">>, types |-> {"park"},
         rating |-> 46, place_id |-> "p7"]
Nameless == [types |-> {"park"}, reviews |-> 10, rating |-> 40, place_id |-> "p2"]
Moor == [name |-> <<"M","o","o","r">>, types |-> {"park"}, reviews |-> 12]
Vale == [name |-> <<"V","a","l","e">>, types |-> {"park"},
         reviews |-> 30, rating |-> 45, place_id |-> "p8"]

CandPool == {Tarn, Fell, Crag, OldInn, Mesa, Cove, Glen, Nameless, Moor, Vale}

Range(l) == { l[i] : i \in 1..Len(l) }

RECURSIVE ListsUpTo(_, _)
\* the lists of at most n different candidates of S (a place is found once)
ListsUpTo(S, n) ==
  IF n = 0 THEN {<<>>}
  ELSE LET shorter == ListsUpTo(S, n - 1)
       IN  shorter \cup UNION { { Append(l, x) : x \in S \ Range(l) } :
                                  l \in { m \in shorter : Len(m) = n - 1 } }

\* place ids whose detail fetch may raise
FailablePids == {"p2"}

Clients ==
  {[configured |-> FALSE, failing |-> {}]}
    \cup {[configured |-> TRUE, failing |-> F] : F \in SUBSET FailablePids}

InitFilter ==
  /\ given \in ListsUpTo(CandPool, MaxCands)
  /\ cands = given
  /\ gmaps_client \in Clients
  /\ out = NoOut
  /\ pc = "ready"
  /\ raw = <<>>
  /\ canon = <<>>
  /\ decoded = NoDecoded
  /\ RetryIdle
  /\ session = NoSession
  /\ http = NoHttp
  /\ response = NoResponse

\* a call of the mean-based analysis_tool on the list
CallAnalysisToolMean ==
  /\ pc = "ready"
  /\ out' = AnalysisToolMean(cands, gmaps_client)
  /\ cands' = CandsAfterMean(cands, gmaps_client)
  /\ pc' = "mean"
  /\ UNCHANGED <<given, gmaps_client, decoderVars, retryVars, session, http, response>>

\* a call of the fixed-300 analysis_tool on the list
CallAnalysisTool300 ==
  /\ pc = "ready"
  /\ out' = AnalysisTool300(cands, gmaps_client)
  /\ pc' = "fixed300"
  /\ UNCHANGED <<given, cands, gmaps_client, decoderVars, retryVars, session, http, response>>

NextFilter == CallAnalysisToolMean \/ CallAnalysisTool300

SpecFilter == InitFilter /\ [][NextFilter]_vars

(***************************************************************************)
(* The enrichment loop on its own: the top survivors of a filter and, for  *)
(* each call of gmaps_client.place, the outcome the Maps service gives     *)
(* (OK or the status the raised error carries).  history records the calls *)
(* made, in order, as pairs of place id and outcome.                       *)
(***************************************************************************)
\* survivors a filter can hand to the loop (each has a rating of 3.5 or more)
Survivors == {Tarn, Vale, Glen, Nameless, Cove}

RECURSIVE PlaceCalls(_, _, _, _)
\* the calls of gmaps_client.place the loop over gems makes when the call for
\* the k-th survivor has the outcome outcomes[k]; stops marks the survivors at
\* which the loop is left by an exception of its handler
PlaceCalls(gems, outcomes, stops, k) ==
  IF k > Len(gems) THEN <<>>
  ELSE IF ~Has(gems[k], "place_id") THEN PlaceCalls(gems, outcomes, stops, k + 1)
  ELSE <<[place_id |-> gems[k]["place_id"], status |-> outcomes[k]]>>
         \o (IF stops[k] THEN <<>> ELSE PlaceCalls(gems, outcomes, stops, k + 1))

\* the place ids whose call fails under outcomes
FailingUnder(gems, outcomes) ==
  { gems[k]["place_id"] : k \in { j \in 1..Len(gems) : Has(gems[j], "place_id")
                                                       /\ outcomes[j] # OK } }

InitFetch ==
  /\ given \in ListsUpTo(Survivors, 3)
  /\ cands = given
  /\ gmaps_client = [configured |-> TRUE, failing |-> {}]
  /\ out = NoOut
  /\ pc = "fetch"
  /\ raw = <<>>
  /\ canon = <<>>
  /\ decoded = NoDecoded
  /\ RetryIdle
  /\ session = NoSession
  /\ http = NoHttp
  /\ response = NoResponse

\* the loop of the mean-based analysis_tool over top_3_gems
FetchTop3Mean ==
  /\ pc = "fetch"
  /\ \E outcomes \in [1..Len(cands) -> {OK} \cup Statuses] :
       LET failing == FailingUnder(cands, outcomes)
           f == FetchDetails(cands, failing, <<>>)
           \* the handler formats gem['name']: a nameless gem ends the loop
           stops == [k \in 1..Len(cands) |->
                       /\ ~Has(cands[k], "name")
                       /\ (outcomes[k] # OK \/ ~Has(cands[k], "rating")
                             \/ ~Has(cands[k], "reviews"))]
       IN  /\ gmaps_client' = [gmaps_client EXCEPT !.failing = failing]
           /\ out' = [kind |-> IF f.raised THEN "raise" ELSE "return",
                      status |-> IF f.raised THEN "none" ELSE "success",
                      gems |-> f.gems, top |-> cands]
           /\ history' = PlaceCalls(cands, outcomes, stops, 1)
  /\ pc' = "fetched"
  /\ UNCHANGED <<given, cands, decoderVars, preset, call, session, http, response>>

\* the loop of the fixed-300 analysis_tool over top_gems
FetchTop300 ==
  /\ pc = "fetch"
  /\ \E outcomes \in [1..Len(cands) -> {OK} \cup Statuses] :
       LET failing == FailingUnder(cands, outcomes)
       IN  /\ gmaps_client' = [gmaps_client EXCEPT !.failing = failing]
           /\ out' = [kind |-> "return", status |-> "success",
                      gems |-> FetchDetails300(cands, failing, <<>>), top |-> cands]
           /\ history' = PlaceCalls(cands, outcomes, [k \in 1..Len(cands) |-> FALSE], 1)
  /\ pc' = "fetched"
  /\ UNCHANGED <<given, cands, decoderVars, preset, call, session, http, response>>

NextFetch == FetchTop3Mean \/ FetchTop300

SpecFetch == InitFetch /\ [][NextFetch]_vars

(***************************************************************************)
(* The texts the decoder is given: json.dumps of every canonical result    *)
(* (any key order), the same cut short, wrapped in a fence or in prose,    *)
(* JSON that is not a canonical result, and every short run of tokens.     *)
(***************************************************************************)
MaxNoise == 3

Coordinates == ODict(<< <<"lat", Num(0)>>, <<"lng", Num(0)>> >>)

\* gems as the recommendation stage writes them, with different key orders
GemPhotosLast ==
  ODict(<< <<"name", Str("X")>>, <<"rating", Num(41)>>,
           <<"coordinates", Coordinates>>, <<"photos", Arr(<<Str("u")>>)>> >>)
GemCoordinatesLast ==
  ODict(<< <<"name", Str("Y")>>, <<"photos", Arr(<<Str("u"), Str("v")>>)>>,
           <<"rating", Num(48)>>, <<"coordinates", Coordinates>> >>)
GemRatingLast ==
  ODict(<< <<"photos", Arr(<<>>)>>, <<"coordinates", Coordinates>>,
           <<"name", Str("Z")>>, <<"rating", Num(45)>> >>)

CanonGems == {GemPhotosLast, GemCoordinatesLast, GemRatingLast}

\* every order of the pairs of a dict
Orders(pairs) ==
  { [i \in 1..Len(pairs) |-> pairs[f[i]]] :
      f \in { g \in [1..Len(pairs) -> 1..Len(pairs)] :
                \A i, j \in 1..Len(pairs) : i # j => g[i] # g[j] } }

\* the canonical results: success with 1 to 3 gems, zero_gems and error with
\* none and a message
CanonicalResults ==
  LET gemLists == UNION { [1..n -> CanonGems] : n \in 1..3 }
      success  == UNION { Orders(<< <<"status", Str("success")>>, <<"gems", Arr(gs)>> >>) :
                            gs \in gemLists }
      other    == UNION { Orders(<< <<"status", Str(st)>>, <<"gems", Arr(<<>>)>>,
                                    <<"message", Str("m")>> >>) :
                            st \in {"zero_gems", "error"} }
  IN  { ODict(pairs) : pairs \in success \cup other }

\* what the recommendation stage is told to write: a dict with the gems only
GemsRecords ==
  { ODict(<< <<"gems", Arr(gs)>> >>) : gs \in UNION { [1..n -> CanonGems] : n \in 1..2 } }

\* JSON that is well formed and is no canonical result
OtherJson ==
  GemsRecords \cup
  { ODict(<< <<"status", Str("success")>>, <<"gems", Arr(<<>>)>> >>),
    ODict(<< <<"gems", Arr(<<GemRatingLast, GemRatingLast, GemRatingLast, GemRatingLast>>)>> >>),
    ODict(<< <<"status", Str("error")>>, <<"gems", Arr(<<GemRatingLast>>)>> >>),
    ODict(<< <<"gems", ODict(<<>>)>> >>),
    ODict(<< <<"places", Arr(<<GemRatingLast>>)>> >>),
    Arr(<<Num(10), Num(20)>>),
    Num(41), Str("X"), Lit("null") }

NoiseTokens ==
  { LB, RB, LBRACK, RBRACK, COLON, COMMA, Quoted("gems"), NumTok(41),
    FENCE, Word("json"), SP, Word("noise") }

Prefixes(toks) == { SubSeq(toks, 1, n) : n \in 0..Len(toks) }

Prose == <<Word("Here"), SP, Word("you"), SP, Word("go"), COLON, NL>>

Trailing == <<SP, Word("extra"), SP, Word("noise"), SP, LB, Word("not"), SP, Word("json"), RB>>

Fenced(toks) == <<FENCE, Word("json"), NL>> \o toks \o <<NL, FENCE>>

\* a fenced block opened with the language tag given (<<>>: no tag)
FencedAs(tag, toks) == <<FENCE>> \o tag \o <<NL>> \o toks \o <<NL, FENCE>>

LanguageTags == { <<>>, <<Word("json")>>, <<Word("javascript")>> }

\* what may follow a fenced block
Trailings ==
  { <<>>, Trailing,
    <<NL>> \o Dumps(ODict(<< <<"gems", Arr(<<>>)>> >>)),
    <<NL>> \o Fenced(<<LB, Word("noise"), RB>>) }

\* the dicts with a gems list that a fenced block may hold
GemsObjects == GemsRecords \cup { r \in CanonicalResults : Len(r.d["gems"].a) <= 1 }

\* a fenced block holding a dict with a gems list, and what follows it
FencedTexts ==
  { [text |-> FencedAs(tag, Dumps(r)) \o tr, tag |-> tag, rec |-> r] :
      tag \in LanguageTags, r \in GemsObjects, tr \in Trailings }

\* a fenced block that is no JSON, then a dict with the gems
BrokenFenceTexts ==
  { FencedAs(<<Word("json")>>, <<LB, Word("noise"), RB>>) \o <<NL>> \o Dumps(r) :
      r \in GemsRecords }

\* the lines of one place of a Markdown answer: its header with the item
\* number k, its rating and review count, its address, its description and
\* its tip
MarkdownLines(k) ==
  [header  |-> <<HASHES, SP, ItemNo(k), SP>>
                 \o (IF k = 1 THEN <<Word("Tarn")>>
                     ELSE <<Word("Fell"), SP, LPAREN, Word("quiet"), Punct(")")>>)
                 \o <<NL>>,
   rating  |-> <<STAR, SP, NumTok(45 + k), SP, LPAREN, PERSON, SP, NumTok(120 * k), SP,
                 Word("reviews"), Punct(")"), NL>>,
   address |-> <<PIN, SP, LOCATION, SP, Word("Alps"), SP, NumTok(10 * k), NL>>,
   why     |-> <<BOLD, WHYLABEL, BOLD, SP, Word("calm"), NL, Word("water"), NL>>,
   tip     |-> <<BOLD, BULB, SP, TIPLABEL, BOLD, SP, Word("early"), NL>>]

LineKinds == <<"header", "rating", "address", "why", "tip">>

\* the lines of place k whose kinds are in the set given, in the order of LineKinds
RECURSIVE MarkdownSection(_, _, _)
MarkdownSection(k, kinds, i) ==
  IF i > Len(LineKinds) THEN <<>>
  ELSE (IF LineKinds[i] \in kinds THEN MarkdownLines(k)[LineKinds[i]] ELSE <<>>)
         \o MarkdownSection(k, kinds, i + 1)

MaxPlaces == 2

\* Markdown answers of at most MaxPlaces places, any line present or not
RECURSIVE MarkdownFrom(_)
MarkdownFrom(k) ==
  IF k > MaxPlaces THEN {<<>>}
  ELSE { MarkdownSection(k, kinds, 1) \o rest :
           kinds \in SUBSET Range(LineKinds), rest \in MarkdownFrom(k + 1) }

MarkdownTexts == MarkdownFrom(1) \ {<<>>}

\* the texts that are not the plain dump of a canonical result
OtherTexts ==
  LET dumps == { Dumps(r) : r \in CanonicalResults \cup OtherJson }
  IN  UNION { [1..n -> NoiseTokens] : n \in 0..MaxNoise }
        \cup { Dumps(r) : r \in OtherJson }
        \cup UNION { Prefixes(Dumps(r)) \ {Dumps(r)} : r \in CanonicalResults }
        \cup { Fenced(d) \o Trailing : d \in dumps }
        \cup { Prose \o d \o Trailing : d \in dumps }
        \cup { <<NL>> \o d \o <<NL>> : d \in dumps }
        \cup { f.text : f \in FencedTexts }
        \cup BrokenFenceTexts
        \cup MarkdownTexts

InitDecoder ==
  /\ \/ \E r \in CanonicalResults : canon = <<r>> /\ raw = Dumps(r)
     \/ canon = <<>> /\ raw \in OtherTexts
  /\ decoded = NoDecoded
  /\ pc = "decode"
  /\ given = <<>>
  /\ cands = <<>>
  /\ gmaps_client = [configured |-> FALSE, failing |-> {}]
  /\ out = NoOut
  /\ RetryIdle
  /\ session = NoSession
  /\ http = NoHttp
  /\ response = NoResponse

\* a call of parse_agent_response on the text
ParseAgentResponse ==
  /\ pc = "decode"
  /\ decoded.kind = "none"
  /\ decoded' = parse_agent_response(raw)
  /\ UNCHANGED <<filterVars, pc, raw, canon, retryVars, session, http, response>>

NextDecoder == ParseAgentResponse

SpecDecoder == InitDecoder /\ [][NextDecoder]_vars

(***************************************************************************)
(* parse_markdown_response applied to a Markdown answer.                   *)
(***************************************************************************)
InitMarkdown ==
  /\ raw \in MarkdownTexts
  /\ canon = <<>>
  /\ decoded = NoDecoded
  /\ pc = "markdown"
  /\ given = <<>>
  /\ cands = <<>>
  /\ gmaps_client = [configured |-> FALSE, failing |-> {}]
  /\ out = NoOut
  /\ RetryIdle
  /\ session = NoSession
  /\ http = NoHttp
  /\ response = NoResponse

\* a call of parse_markdown_response on the text
ParseMarkdownResponse ==
  /\ pc = "markdown"
  /\ decoded.kind = "none"
  /\ decoded' = [kind |-> "return", val |-> parse_markdown_response(raw)]
  /\ UNCHANGED <<filterVars, pc, raw, canon, retryVars, session, http, response>>

NextMarkdown == ParseMarkdownResponse

SpecMarkdown == InitMarkdown /\ [][NextMarkdown]_vars

(***************************************************************************)
(* The endpoint /api/discover.  discover_gems awaits runner.run_debug,     *)
(* inside of which the agents make their model calls under their retry     *)
(* settings; a call that is raised ends run_debug with that exception.     *)
(* The response considered here is a str; raw is the text discover_gems    *)
(* extracts from it and decoded what parse_agent_response makes of it.     *)
(***************************************************************************)
\* the text put in the place of an empty response
DEFAULT_MESSAGE ==
  <<Word("I couldn't find any hidden gems matching your criteria. Please try a different query.")>>

\* response_text of a str response: an empty one goes through the fallback
\* strategies, which find nothing in it
ResponseText(returned) == IF returned = <<>> THEN DEFAULT_MESSAGE ELSE returned

\* key in v, for a str key: the truth value, or raised for a v that is no
\* container; no str of the responses holds the keys looked for
KeyIn(key, v) ==
  CASE v.t = "obj" -> [raised |-> FALSE, val |-> Has(v.d, key)]
    [] v.t = "arr" -> [raised |-> FALSE, val |-> Str(key) \in Range(v.a)]
    [] v.t = "str" -> [raised |-> FALSE, val |-> FALSE]
    [] OTHER       -> [raised |-> TRUE, val |-> FALSE]

\* the body of the loop that validates the coordinates of one gem
FixCoordinates(gem) ==
  LET zeros == LatLng(Num(0), Num(0))
      has == KeyIn("coordinates", gem)
      coordinates == gem.d["coordinates"]
      lat == KeyIn("lat", coordinates)
      lng == KeyIn("lng", coordinates)
      fixed == [raised |-> FALSE, val |-> Obj(Put(gem.d, "coordinates", zeros))]
      failed == [raised |-> TRUE, val |-> gem]
  IN  IF has.raised THEN failed
      ELSE IF gem.t # "obj" THEN failed   \* no item assignment, or no str key
      ELSE IF ~has.val \/ ~Truthy(coordinates) THEN fixed
      ELSE IF lat.raised THEN failed
      ELSE IF ~lat.val THEN fixed
      ELSE IF ~lng.val THEN fixed
      ELSE [raised |-> FALSE, val |-> gem]

\* the HTTPException of the outer except clause
Http500 == [kind |-> "raise", code |-> 500, body |-> Lit("null")]

\* discover_gems from the parsed data on: raised is whether run_debug let an
\* exception out, parsed_data what parse_agent_response made of the response
\* text otherwise
discover_gems(raised, parsed_data) ==
  LET gems == GetV(parsed_data, "gems", Arr(<<>>))
      fixes == [i \in 1..Len(gems.a) |-> FixCoordinates(gems.a[i])]
      body(g) == Obj(Put(Put(EmptyDict, "gems", g), "query", Str("q")))
      ok(g) == [kind |-> "return", code |-> 200, body |-> body(g)]
  IN  IF raised THEN Http500
      ELSE IF parsed_data.t # "obj" THEN Http500            \* no get
      ELSE IF gems.t = "arr"
      THEN IF \E i \in 1..Len(fixes) : fixes[i].raised THEN Http500
           ELSE ok(Arr([i \in 1..Len(fixes) |-> fixes[i].val]))
      ELSE IF (gems.t = "obj" /\ gems.d = EmptyDict) \/ gems = Str("")
      THEN ok(gems)                                          \* nothing to iterate over
      ELSE Http500

\* the responses: results of the recommendation stage, with and without
\* well-formed coordinates, in a fence or bare, and texts that are no result
GemWith(coordinates) ==
  ODict(<< <<"placeName", Str("X")>>, <<"coordinates", coordinates>> >>)

DiscoverRecords ==
  { ODict(<< <<"gems", Arr(gs)>> >>) :
      gs \in { <<GemPhotosLast>>, <<GemRatingLast, GemCoordinatesLast>>, <<>>,
               <<ODict(<< <<"placeName", Str("X")>> >>)>>,
               <<GemWith(ODict(<< <<"lat", Num(481)>> >>))>>,
               <<GemWith(ODict(<< <<"lat", Num(481)>>, <<"lng", Num(115)>> >>))>>,
               <<GemWith(Lit("null"))>>, <<GemWith(Num(10))>>, <<GemWith(Str("48.1,11.5"))>>,
               <<GemWith(Arr(<<Str("lat"), Str("lng")>>))>>,
               <<GemPhotosLast, Str("X")>>, <<Num(10)>> } }
    \cup { ODict(<< <<"gems", g>> >>) : g \in {Lit("null"), ODict(<<>>), Str(""), Num(10)} }
    \cup { ODict(<< <<"status", Str("zero_gems")>>, <<"message", Str("m")>> >>),
           Arr(<<Num(10)>>) }

DiscoverTexts ==
  { Dumps(r) : r \in DiscoverRecords }
    \cup { Fenced(Dumps(r)) : r \in DiscoverRecords }
    \cup { <<>>, Prose, <<LB, Word("noise"), RB>> }

InitDiscover ==
  /\ preset \in Presets
  /\ history = <<>>
  /\ call = "pending"
  /\ raw = <<>> /\ canon = <<>> /\ decoded = NoDecoded
  /\ given = <<>> /\ cands = <<>> /\ out = NoOut
  /\ gmaps_client = [configured |-> FALSE, failing |-> {}]
  /\ pc = "discover"
  /\ session = NoSession
  /\ http = NoHttp
  /\ response = NoResponse

\* run_debug is over, with a response unless the model call was raised, and
\* discover_gems answers
DiscoverGems ==
  /\ pc = "discover"
  /\ call \in {"returned", "raised"}
  /\ http = NoHttp
  /\ IF call = "raised"
     THEN UNCHANGED <<raw, decoded, response>>
     ELSE /\ response' \in DiscoverTexts
          /\ raw' = ResponseText(response')
          /\ decoded' = parse_agent_response(raw')
  /\ http' = discover_gems(call = "raised", decoded'.val)
  /\ UNCHANGED <<filterVars, pc, canon, retryVars, session>>

NextDiscover == Invoke \/ DiscoverGems

SpecDiscover == InitDiscover /\ [][NextDiscover]_vars

(***************************************************************************)
(* The endpoint /api/select.  select_gem awaits runner.run_debug and       *)
(* reads the advice out of the list of events it returns.  An event has a  *)
(* role (or no such attribute) and the parts of its content; a part has a  *)
(* text (or none, "") and a function_response: none, one whose response    *)
(* has no key result, or one with a result.                                *)
(***************************************************************************)
TextPart(text) == [text |-> text, function_response |-> "none", result |-> ""]
CallPart == [text |-> "", function_response |-> "none", result |-> ""]
ResultPart(result) == [text |-> "", function_response |-> "result", result |-> result]
NoResultPart == [text |-> "", function_response |-> "noresult", result |-> ""]

Event(role, parts) == [role |-> role, parts |-> parts]

RECURSIVE JoinParts(_, _)
\* str() of the parts from the k-th on
JoinParts(parts, k) ==
  IF k > Len(parts) THEN ""
  ELSE "Part(text=" \o parts[k].text \o ", function_response=" \o parts[k].function_response
         \o ":" \o parts[k].result \o ")"
         \o (IF k < Len(parts) THEN ", " ELSE "") \o JoinParts(parts, k + 1)

RECURSIVE JoinEvents(_, _)
\* str() of the events from the k-th on
JoinEvents(events, k) ==
  IF k > Len(events) THEN ""
  ELSE "Event(role=" \o events[k].role \o ", parts=[" \o JoinParts(events[k].parts, 1) \o "])"
         \o (IF k < Len(events) THEN ", " ELSE "") \o JoinEvents(events, k + 1)

\* str(response) of a list of events
StrOfEvents(events) == "[" \o JoinEvents(events, 1) \o "]"

RECURSIVE JoinTexts(_, _)
\* "".join(text_parts): the texts of the parts that have one
JoinTexts(parts, k) ==
  IF k > Len(parts) THEN "" ELSE parts[k].text \o JoinTexts(parts, k + 1)

\* the text the inner for loop leaves in response_text: the result of the
\* first part whose function_response has one, else the text it had
AfterParts(parts, response_text) ==
  LET withResult == { k \in 1..Len(parts) : parts[k].function_response = "result" }
  IN  IF withResult = {} THEN response_text
      ELSE parts[Least(withResult)].result

RECURSIVE ScanEvents(_, _, _)
\* for event in reversed(response), from the i-th event down
ScanEvents(events, i, response_text) ==
  IF i = 0 THEN response_text
  ELSE LET event == events[i]
           text_parts == JoinTexts(event.parts, 1)
           after == AfterParts(event.parts, response_text)
       IN  IF event.role = "model" /\ event.parts # <<>> /\ text_parts # ""
           THEN text_parts
           ELSE IF event.parts # <<>>
           THEN IF after # "" THEN after                 \* if response_text: break
                ELSE ScanEvents(events, i - 1, after)
           ELSE ScanEvents(events, i - 1, response_text)

\* advice_data: json.loads of the text with its fence removed, else the text;
\* of the texts of these responses only the str of the empty list is JSON
AdviceData(response_text) ==
  IF response_text = "[]" THEN Arr(<<>>) ELSE Str(response_text)

\* select_gem on the list of events run_debug returned
select_gem(events) ==
  LET response_text == ScanEvents(events, Len(events), StrOfEvents(events))
  IN  [kind |-> "return", code |-> 200,
       body |-> Obj(Put(Put(EmptyDict, "advice", AdviceData(response_text)),
                        "selection", Str("Tarn")))]

\* the events of a response: model text, the result of a tool, a tool call, a
\* tool response without result, text of another role, an event without parts
Events ==
  { Event("model", <<TextPart("sunny")>>),
    Event("user", <<ResultPart("rain")>>),
    Event("model", <<CallPart>>),
    Event("user", <<NoResultPart, ResultPart("")>>),
    Event("none", <<TextPart("hello")>>),
    Event("model", <<TextPart("take"), TextPart(" a coat"), ResultPart("snow")>>),
    Event("model", <<>>) }

MaxEvents == 3

EventLists == UNION { [1..n -> Events] : n \in 0..MaxEvents }

InitSelect ==
  /\ response = NoResponse
  /\ http = NoHttp
  /\ pc = "select"
  /\ raw = <<>> /\ canon = <<>> /\ decoded = NoDecoded
  /\ given = <<>> /\ cands = <<>> /\ out = NoOut
  /\ gmaps_client = [configured |-> FALSE, failing |-> {}]
  /\ RetryIdle
  /\ session = NoSession

\* run_debug is over with a list of events, and select_gem answers
SelectGem ==
  /\ pc = "select"
  /\ http = NoHttp
  /\ response' \in EventLists
  /\ http' = select_gem(response')
  /\ UNCHANGED <<filterVars, pc, decoderVars, retryVars, session>>

NextSelect == SelectGem

SpecSelect == InitSelect /\ [][NextSelect]_vars

(***************************************************************************)
(* The backend and its callers.  The module has one runner, made once when *)
(* it is loaded, and the three endpoints hand it the text of the request   *)
(* and nothing else: every call of run_debug, whoever the caller of the    *)
(* endpoint is, is a turn of the one conversation the runner keeps, and    *)
(* the root agent answers a turn from the conversation so far.             *)
(***************************************************************************)
Callers == {"A", "B"}

MaxTurns == 4

InitCallers ==
  /\ session = [NoSession EXCEPT !.package = "IGotYou"]
  /\ pc = "callers"
  /\ given = <<>> /\ cands = <<>> /\ out = NoOut
  /\ gmaps_client = [configured |-> FALSE, failing |-> {}]
  /\ raw = <<>> /\ canon = <<>> /\ decoded = NoDecoded
  /\ RetryIdle
  /\ http = NoHttp
  /\ response = NoResponse

\* the turn run_debug adds to the conversation for an endpoint called by caller:
\* against is the caller whose gems the conversation holds when the agent answers
Turn(caller, endpoint, gems_for) ==
  [caller |-> caller, endpoint |-> endpoint, against |-> gems_for]

\* discover_gems for a caller: runner.run_debug(request.searchQuery); the
\* pipeline runs and its gems are now the gems of the conversation
DiscoverBy(caller) ==
  /\ pc = "callers"
  /\ Len(session.turns) < MaxTurns
  /\ session' = [session EXCEPT !.turns = Append(@, Turn(caller, "discover", caller)),
                                !.gems_for = caller]
  /\ UNCHANGED <<filterVars, pc, decoderVars, retryVars, http, response>>

\* select_gem for a caller: runner.run_debug("I choose " + request.selection)
SelectBy(caller) ==
  /\ pc = "callers"
  /\ Len(session.turns) < MaxTurns
  /\ session' = [session EXCEPT
                   !.turns = Append(@, Turn(caller, "select", session.gems_for))]
  /\ UNCHANGED <<filterVars, pc, decoderVars, retryVars, http, response>>

\* chat for a caller: runner.run_debug(request.message)
ChatBy(caller) ==
  /\ pc = "callers"
  /\ Len(session.turns) < MaxTurns
  /\ session' = [session EXCEPT
                   !.turns = Append(@, Turn(caller, "chat", session.gems_for))]
  /\ UNCHANGED <<filterVars, pc, decoderVars, retryVars, http, response>>

NextCallers == \E caller \in Callers : DiscoverBy(caller) \/ SelectBy(caller) \/ ChatBy(caller)

SpecCallers == InitCallers /\ [][NextCallers]_vars

(***************************************************************************)
(* Properties of the filter.  The claims' own terms are restated here and *)
(* compared with what the call left in the state.                          *)
(***************************************************************************)
\* the mean-based analysis_tool ran its filter (it had a Maps client)
MeanRan == pc = "mean" /\ gmaps_client.configured

\* a candidate the business denylist rejects
Denylisted(p) ==
  \/ KeywordTable[Get(p, "name", <<>>)]
  \/ Get(p, "types", {}) \cap BUSINESS_TYPES # {}

\* sum and number of the reviewCounts of the candidates of `given` that satisfy Keep
SumOver(Keep(_)) ==
  SumReviews(SelectSeq(given, Keep))

CountOver(Keep(_)) == Len(SelectSeq(given, Keep))

\* the tier rules as the specification words them, mean = total / n:  the set
\* holding the score of the first rule that matches, empty when none does
RuleScore(p, total, n) ==
  LET rev  == Get(p, "reviews", 0)
      rate == Get(p, "rating", 0)
  IN  IF 10 <= rev /\ 2 * rev * n <= total /\ rate >= 35 THEN {2}
      ELSE IF 10 <= rev /\ rev * n <= total /\ rate >= 35 THEN {1}
      ELSE IF rev * n <= 2 * total /\ rate >= 45 THEN {0}
      ELSE {}

\* the score the call left on candidate i, as a set (empty: not selected)
ScoreLeft(i) == IF Has(cands[i], "score") THEN {cands[i]["score"]} ELSE {}

Selected == { i \in 1..Len(cands) : Has(cands[i], "score") }

\* the sort key of a scored candidate
KeyOf(p) == <<p["score"], p["rating"]>>

\* C1: the survivors of the filter are none (zero_gems) or between 1 and 3, and
\* the gems analysis_tool returns are never more than 3, in both variants
C1_OutputAtMostThree ==
  pc \in {"mean", "fixed300"} =>
    /\ Len(out.top) <= 3
    /\ Len(out.gems) <= Len(out.top)
    /\ out.status = "success" => Len(out.top) \in 1..3
    /\ out.status = "zero_gems" => Len(out.top) = 0 /\ Len(out.gems) = 0

C1_Witness ==
  /\ pc = "mean"
  /\ Cardinality(Selected) > 3
  /\ Len(out.top) = 3
  /\ Len(out.gems) = 3

\* C2: a list holding a candidate that the denylist does not reject and whose
\* rating is at least 4.5 never gets zero_gems from the mean-based filter
C2_NeverZeroGems ==
  (pc = "mean" /\ \E i \in 1..Len(given) :
                     ~Denylisted(given[i]) /\ Get(given[i], "rating", 0) >= 45)
    => out.status # "zero_gems"

\* the tier pass selected nothing and the fallback pass kept a 4.5 candidate
C2_Witness ==
  /\ MeanRan
  /\ out.status = "success"
  /\ \E k \in 1..Len(out.top) : out.top[k]["score"] = -1 /\ out.top[k]["rating"] >= 45

\* C3: in the tier pass every candidate the denylist does not reject gets the
\* score of the first matching rule (2, 1, 0, in that order) and is left out
\* when no rule matches; the mean is that of the list the tool was given
C3_TierRules ==
  MeanRan =>
    LET total == SumReviews(given)
        n     == Len(given)
        tierPassSelected == \E j \in 1..Len(cands) : ScoreLeft(j) \cap {0, 1, 2} # {}
    IN  \A i \in 1..Len(given) :
          ~Denylisted(given[i]) =>
            /\ tierPassSelected => ScoreLeft(i) = RuleScore(given[i], total, n)
            /\ ~tierPassSelected => RuleScore(given[i], total, n) = {}
            /\ Get(given[i], "reviews", 0) < 10 => ScoreLeft(i) \cap {1, 2} = {}

\* all three tiers and an excluded candidate in one call, the score 0 going to
\* a candidate with fewer than 10 reviews
C3_Witness ==
  /\ MeanRan
  /\ \E i, j, k, l \in 1..Len(cands) :
       /\ ScoreLeft(i) = {2} /\ ScoreLeft(j) = {1} /\ ScoreLeft(k) = {0}
       /\ Get(given[k], "reviews", 0) < 10
       /\ ~Denylisted(given[l]) /\ ScoreLeft(l) = {}

\* C4: the mean of the tier thresholds is taken over the candidates that
\* survive the denylist, so that the tier of a candidate is the one the rules
\* give with that mean, whatever rejected candidates the list also holds
C4_MeanOverSurvivors ==
  MeanRan =>
    LET total == SumOver(LAMBDA p : ~Denylisted(p))
        n     == CountOver(LAMBDA p : ~Denylisted(p))
        tierPassSelected == \E j \in 1..Len(cands) : ScoreLeft(j) \cap {0, 1, 2} # {}
    IN  \A i \in 1..Len(given) :
          ~Denylisted(given[i]) =>
            /\ tierPassSelected => ScoreLeft(i) = RuleScore(given[i], total, n)
            /\ ~tierPassSelected => RuleScore(given[i], total, n) = {}

\* C5: the fallback pass runs only when the tier pass selected nothing, and
\* then selects exactly the candidates not denylisted with rating >= 4.0, each
\* with score -1; the output never mixes score -1 with a score >= 0; and
\* zero_gems is returned exactly when both passes selected nothing
C5_FallbackOnlyWhenTierEmpty ==
  MeanRan =>
    LET total == SumReviews(given)
        n     == Len(given)
        tierEmpty == \A i \in 1..Len(given) :
                       Denylisted(given[i]) \/ RuleScore(given[i], total, n) = {}
        fallback(i) == ~Denylisted(given[i]) /\ Get(given[i], "rating", 0) >= 40
    IN  /\ (\E i \in Selected : cands[i]["score"] = -1) => tierEmpty
        /\ tierEmpty => \A i \in 1..Len(given) :
                          ScoreLeft(i) = IF fallback(i) THEN {-1} ELSE {}
        /\ ~\E a, b \in 1..Len(out.top) :
              out.top[a]["score"] = -1 /\ out.top[b]["score"] >= 0
        /\ out.status = "zero_gems" <=>
             (tierEmpty /\ \A i \in 1..Len(given) : ~fallback(i))

\* the fallback pass ran, selected a candidate and left another one out
C5_Witness ==
  /\ MeanRan
  /\ \E i, j \in 1..Len(cands) :
       /\ ScoreLeft(i) = {-1}
       /\ ~Denylisted(given[j]) /\ ScoreLeft(j) = {}

C7_NoBusinessInOutput ==
  MeanRan =>
    /\ \A i \in 1..Len(given) : Denylisted(given[i]) => ScoreLeft(i) = {}
    /\ \A k \in 1..Len(out.top) : ~Denylisted(out.top[k])
    /\ \A k \in 1..Len(out.gems) : \A i \in 1..Len(given) :
         (Denylisted(given[i]) /\ Has(given[i], "place_id"))
           => out.gems[k].name # PlaceResult(given[i]["place_id"]).name

\* a candidate denylisted by its name, with a rating that passes the threshold
\* of both passes, in a call where the fallback pass ran and selected another
C7_Witness ==
  /\ MeanRan
  /\ out.status = "success"
  /\ \E k \in 1..Len(out.top) : out.top[k]["score"] = -1
  /\ \E i \in 1..Len(given) :
       KeywordTable[Get(given[i], "name", <<>>)] /\ Get(given[i], "rating", 0) >= 45

(***************************************************************************)
(* Properties of the structured results and of the decoder.                *)
(***************************************************************************)
\* the statuses of a canonical result
CanonicalStatuses == {"success", "zero_gems", "error"}

\* the status a decoded dict carries, as a set (empty: none)
StatusOf(v) ==
  IF v.t = "obj" /\ Has(v.d, "status") /\ v.d["status"].t = "str"
  THEN {v.d["status"].s} ELSE {}

\* the number of gems a decoded dict carries (0 when it has no gems list)
GemCount(v) ==
  IF v.t = "obj" /\ Has(v.d, "gems") /\ v.d["gems"].t = "arr"
  THEN Len(v.d["gems"].a) ELSE 0

\* C8: every structured result of analysis_tool and of parse_agent_response has
\* between 1 and 3 gems when its status is success and no gem otherwise
C8_CanonicalInvariant ==
  /\ (pc \in {"mean", "fixed300"} /\ out.kind = "return") =>
       IF out.status = "success" THEN Len(out.gems) \in 1..3
                                 ELSE Len(out.gems) = 0
  /\ (pc = "decode" /\ decoded.kind = "return") =>
       IF StatusOf(decoded.val) = {"success"} THEN GemCount(decoded.val) \in 1..3
                                              ELSE GemCount(decoded.val) = 0

\* C9: parse_agent_response never raises; what it returns carries a status of
\* the canonical three and a gems list, and when nothing could be recovered
\* from the text the status is error, the gems list empty and a message given
C9_DecoderWellFormed ==
  (pc = "decode" /\ decoded.kind # "none") =>
    /\ decoded.kind = "return"
    /\ decoded.val.t = "obj"
    /\ StatusOf(decoded.val) \subseteq CanonicalStatuses
    /\ StatusOf(decoded.val) # {}
    /\ Has(decoded.val.d, "gems") /\ decoded.val.d["gems"].t = "arr"
    /\ TryBody(raw).exc # "none" =>
         /\ StatusOf(decoded.val) = {"error"}
         /\ GemCount(decoded.val) = 0
         /\ Has(decoded.val.d, "message")

\* C10: decoding the serialization of a canonical result, whatever the order
\* of its keys, gives that result back
C10_RoundTrip ==
  (pc = "decode" /\ canon # <<>> /\ decoded.kind # "none") =>
    /\ decoded.kind = "return"
    /\ decoded.val = AsDict(canon[1])

\* a text that json.loads turns into a dict with a gems list
ValidGemsObject(toks) ==
  LET loaded == JsonLoads(toks)
  IN  loaded.ok /\ loaded.val.t = "obj"
        /\ Has(loaded.val.d, "gems") /\ loaded.val.d["gems"].t = "arr"

\* the texts the strategies locate in response_text, in the order they are tried
StrategyTexts(response_text) ==
  LET fenced == FencedBlock(response_text)
      span   == GemsSpan(response_text)
  IN  (IF fenced.found THEN <<SubSeq(response_text, fenced.from, fenced.to)>> ELSE <<>>)
        \o (IF span.found THEN <<SubSeq(response_text, span.from, span.to)>> ELSE <<>>)
        \o <<FromFirstBrace(response_text)>>

\* the result of the first strategy that yields a valid parsed object
CascadeResult(response_text) ==
  LET texts == StrategyTexts(response_text)
      valid == { k \in 1..Len(texts) : ValidGemsObject(texts[k]) }
  IN  IF valid = {} THEN EmptyGems ELSE JsonLoads(texts[Least(valid)]).val

\* C11: the strategies are tried in order and the result is that of the first
\* one that yields a valid parsed object; a located text that does not parse
\* does not end the search
C11_CascadeFirstSuccess ==
  (pc = "decode" /\ decoded.kind # "none") =>
    /\ decoded.kind = "return"
    /\ decoded.val = CascadeResult(Strip(raw))

\* the gems of a decoded dict (none when it has no gems list)
GemsOf(v) ==
  IF v.t = "obj" /\ Has(v.d, "gems") /\ v.d["gems"].t = "arr" THEN v.d["gems"].a ELSE <<>>

\* a record of the gems after prose and before trailing text with braces of its own
EmbeddedTexts ==
  { [text |-> Prose \o Dumps(r) \o Trailing, rec |-> r] : r \in GemsRecords }

\* C12: from a text that holds a valid record opening on the gems key, after
\* prose and before trailing text with braces, the decoder returns the gems
\* of that record
C12_BalancedSpan ==
  (pc = "decode" /\ decoded.kind # "none") =>
    \A e \in EmbeddedTexts :
      raw = e.text => /\ decoded.kind = "return"
                      /\ GemsOf(decoded.val) = GemsOf(AsDict(e.rec))

HasItemHeader(toks) == FindAll("place", toks, 1, <<>>) # <<>>

\* C14: a text with Markdown item headers and no JSON object decodes to the
\* gems the Markdown field extraction gives, never to an empty result
C14_MarkdownFallback ==
  (pc = "decode" /\ decoded.kind # "none" /\ raw \in MarkdownTexts /\ HasItemHeader(raw))
    => /\ decoded.kind = "return"
       /\ GemsOf(decoded.val) # <<>>
       /\ GemsOf(decoded.val) = GemsOf(parse_markdown_response(raw))

(***************************************************************************)
(* Properties of a model call under a retry setting.                       *)
(***************************************************************************)
\* every outcome among the first n is a failure the policy tries again
AllRetryable(p, outcomes, n) == \A i \in 1..n : Retryable(p, outcomes[i])

C16_NonRetryablePropagates ==
  pc = "call" =>
    LET retryable == IF preset = "tight" THEN {429, 500, 503} ELSE {429, 500, 503, 504}
        k == Len(history)
    IN  /\ \A i \in 1..k :
             history[i] \notin retryable \cup {OK} => (i = k /\ call = "raised")
        /\ (k = 1 /\ history[1] \notin retryable \cup {OK}) => call = "raised"
        /\ (k = 1 /\ history[1] \in retryable) => call = "pending"
        /\ (preset = "loose" /\ history = <<504>>) => call = "pending"
        /\ (preset = "tight" /\ k > 0 /\ history[1] = 504) => (k = 1 /\ call = "raised")

\* a 504 was tried again under the loose preset
C16_Witness ==
  /\ pc = "call" /\ preset = "loose"
  /\ Len(history) = 2 /\ history[1] = 504 /\ history[2] = 400 /\ call = "raised"

(***************************************************************************)
(* Properties of a conversation with a root agent.                         *)
(***************************************************************************)
\* the clarification loop ran for this conversation
InIntent == pc = "session" /\ session.package = "IGotYou"

\* C17: the INTENT phase is left after at most 5 clarification iterations,
\* and at iteration i when the reply of iteration i holds the completion marker
C17_IntentLeftOnMarkerOrBound ==
  InIntent =>
    /\ Len(session.replies) <= 5
    /\ (Len(session.replies) = 5 => session.phase # "INTENT")
    /\ \A i \in 1..Len(session.replies) :
         session.replies[i] => (i = Len(session.replies) /\ session.phase # "INTENT")

\* C18: the Recommendation stage never runs after a filter step that
\* returned zero_gems
C18_NoRecommendAfterZeroGems ==
  (pc = "session" /\ session.filter_status = "zero_gems")
    => /\ session.phase # "RECOMMEND"
       /\ \A i \in 1..Len(session.ran) : session.ran[i] # "RECOMMEND"

\* C19: for a travel date more than 16 days ahead the weather tool is never
\* called and the advice is the seasonal one; for a date within 16 days the
\* weather tool is called
C19_WeatherOnlyWithinHorizon ==
  (pc = "session" /\ session.phase = "CONVERSATION")
    => IF session.days_ahead > 16
       THEN session.weather_calls = 0 /\ session.advice = "seasonal"
       ELSE session.weather_calls = 1 /\ session.advice = "forecast"

(***************************************************************************)
(* Properties of the endpoint /api/discover.                               *)
(***************************************************************************)
\* the model call failed with a retryable status on every attempt its
\* policy allows
RetriesExhausted ==
  /\ call = "raised"
  /\ Len(history) = Policy(preset).attempts
  /\ AllRetryable(preset, history, Len(history))

\* C20: when a model call made by discover fails transiently and its retries
\* are exhausted, discover returns a result with status ERROR and no gems,
\* and raises nothing
C20_ExhaustedRetriesGiveErrorResult ==
  (pc = "discover" /\ http # NoHttp /\ RetriesExhausted)
    => /\ http.kind = "return"
       /\ GetV(http.body, "status", Str("")) \in {Str("ERROR"), Str("error")}
       /\ GemsOf(http.body) = <<>>

(***************************************************************************)
(* Properties of the detail fetch and of the filter's treatment of its     *)
(* input.                                                                  *)
(***************************************************************************)
\* analysis_tool reached its fetch loop
Fetching == pc \in {"mean", "fixed300"} /\ gmaps_client.configured /\ out.top # <<>>

\* the detail fetch of a survivor succeeds
FetchSucceeds(gem) == Has(gem, "place_id") /\ gem["place_id"] \notin gmaps_client.failing

\* the names the detail fetch gives for the survivors whose fetch succeeds
FetchedNames ==
  LET ok == SelectSeq(out.top, FetchSucceeds)
  IN  [k \in 1..Len(ok) |-> PlaceResult(ok[k]["place_id"]).name]

\* C22: when the detail fetch of a survivor fails, that survivor alone is
\* omitted: analysis_tool returns normally and its gems are the survivors whose
\* fetch succeeded, in rank order
C22_FetchFailureOmitsOnlyThatSurvivor ==
  Fetching =>
    /\ out.kind = "return"
    /\ [k \in 1..Len(out.gems) |-> out.gems[k].name] = FetchedNames

\* C23: the filter is pure over its input: after a call every input candidate
\* record has exactly the fields and values it had before the call
C23_FilterLeavesInputUnchanged ==
  pc \in {"mean", "fixed300"} => cands = given

\* the candidate p with a missing reviewCount or rating written out as 0
Filled(p) ==
  Put(Put(p, "reviews", Get(p, "reviews", 0)), "rating", Get(p, "rating", 0))

\* what the mean-based analysis_tool gives for the list with every missing
\* reviewCount and rating written out as 0
OutFilled ==
  AnalysisToolMean([i \in 1..Len(given) |-> Filled(given[i])], gmaps_client)

\* C26: a candidate without reviewCount (or rating) is handled as the same
\* candidate with reviewCount 0 (rating 0): same tiers, same survivors, and the
\* same returned gems, the missing value reading 0; an empty list gives
\* zero_gems
C26_MissingCountsAsZero ==
  MeanRan =>
    /\ out.kind = OutFilled.kind
    /\ out.status = OutFilled.status
    /\ out.gems = OutFilled.gems
    /\ Len(out.top) = Len(OutFilled.top)
    /\ given = <<>> => out.kind = "return" /\ out.status = "zero_gems"

(***************************************************************************)
(* Properties of the fixed-300 variant of the filter.                      *)
(***************************************************************************)
\* the fixed-300 analysis_tool ran its filter (it had a Maps client)
Ran300 == pc = "fixed300" /\ gmaps_client.configured

\* the candidates with fewer than 300 reviews, a missing count reading 0
Under300 == { i \in 1..Len(given) : Get(given[i], "reviews", 0) < 300 }

\* C29: the fixed-300 filter selects the candidates with fewer than 300
\* reviews (a missing count reading 0), orders them by rating descending and
\* keeps the first 3; it gives zero_gems exactly when the list is empty or no
\* candidate has fewer than 300 reviews, whatever the ratings and types
C29_Fixed300Selection ==
  Ran300 =>
    LET top == out.top
        rate(p) == Get(p, "rating", 0)
    IN  /\ (out.status = "zero_gems") <=> (given = <<>> \/ Under300 = {})
        /\ out.status \in {"zero_gems", "success"}
        /\ Len(top) = Min(3, Cardinality(Under300))
        /\ \A k \in 1..Len(top) : \E i \in Under300 : given[i] = top[k]
        /\ \A k, l \in 1..Len(top) : k < l => top[k] # top[l] /\ rate(top[k]) >= rate(top[l])
        /\ \A i \in Under300 :
             (\A k \in 1..Len(top) : top[k] # given[i])
               => \A k \in 1..Len(top) : rate(top[k]) >= rate(given[i])

\* four candidates under 300 reviews, one of them a business and one without a
\* review count among the three kept, and one left out
C29_Witness ==
  /\ Ran300
  /\ Cardinality(Under300) = 4
  /\ Len(out.top) = 3
  /\ \E k \in 1..3 : ~Has(out.top[k], "reviews")
  /\ \E k \in 1..3 : Denylisted(out.top[k])

(***************************************************************************)
(* Properties of the calls the enrichment loop makes.                      *)
(***************************************************************************)
\* the number of calls for the place id of the k-th call, up to that call
AttemptsUpTo(k) ==
  Cardinality({ j \in 1..k : history[j].place_id = history[k].place_id })

\* C28: a detail fetch that fails with a retryable status is attempted again
\* while attempts remain: the next call the loop makes is for the same place
C28_FetchRetriedWhileAttemptsRemain ==
  pc = "fetched" =>
    \A k \in 1..Len(history) :
      (Retryable("tight", history[k].status) /\ AttemptsUpTo(k) < Policy("tight").attempts)
        => /\ k < Len(history)
           /\ history[k + 1].place_id = history[k].place_id

(***************************************************************************)
(* Properties of the photos of the gems.                                   *)
(***************************************************************************)
\* the photos a returned gem carries: its photo list, or its one photo URL
PhotosOf(gem) ==
  IF Has(gem, "photo_urls") THEN gem["photo_urls"]
  ELSE IF Has(gem, "photo_url") /\ gem["photo_url"] # "" THEN <<gem["photo_url"]>>
  ELSE <<>>

\* C27: every gem the enrichment of analysis_tool produces has a non-empty
\* photo list, the placeholder image standing in when the place has no photo
C27_GemsHavePhotos ==
  pc \in {"mean", "fixed300"} =>
    \A k \in 1..Len(out.gems) : PhotosOf(out.gems[k]) # <<>>

(***************************************************************************)
(* Properties of the normalization of coordinates.                         *)
(***************************************************************************)
\* discover decoded a response whose gems are a list of mappings
DecodedGemRecords ==
  /\ pc = "discover" /\ call = "returned" /\ http # NoHttp
  /\ decoded.val.t = "obj" /\ Has(decoded.val.d, "gems")
  /\ decoded.val.d["gems"].t = "arr"
  /\ \A i \in 1..Len(decoded.val.d["gems"].a) : decoded.val.d["gems"].a[i].t = "obj"

\* a coordinate value of the form {lat, lng}
IsLatLng(c) == c.t = "obj" /\ Has(c.d, "lat") /\ Has(c.d, "lng")

\* C25: after normalization every gem delivered by discover has coordinates of
\* the form {lat, lng}, a gem whose coordinates are absent, empty, incomplete
\* or no mapping getting {lat: 0, lng: 0}, and the request does not fail
C25_CoordinatesNormalized ==
  DecodedGemRecords =>
    LET before == decoded.val.d["gems"].a
        after  == GemsOf(http.body)
    IN  /\ http.kind = "return"
        /\ Len(after) = Len(before)
        /\ \A i \in 1..Len(before) :
             LET c == GetV(before[i], "coordinates", Lit("null"))
             IN  after[i].d["coordinates"] = IF IsLatLng(c) THEN c ELSE LatLng(Num(0), Num(0))

(***************************************************************************)
(* Properties of the Markdown extraction.                                  *)
(***************************************************************************)
\* the i-th match of a field kind in the text, or none
MatchesOf(kind) == FindAll(kind, raw, 1, <<>>)

\* C24: parse_markdown_response returns one gem per item header, the i-th gem
\* taking the i-th match of each field kind or the field's default, and no gem
\* for an index that has no header
C24_OneGemPerHeader ==
  (pc = "markdown" /\ decoded.kind = "return") =>
    LET gems == GemsOf(decoded.val)
        headers == MatchesOf("place")
    IN  /\ Len(gems) = Len(headers)
        /\ \A i \in 1..Len(gems) :
             /\ gems[i].d["placeName"] = Text(Strip(headers[i]))
             /\ gems[i].d["rating"] = NumberOr(MatchesOf("rating"), i, Num(40))
             /\ gems[i].d["reviewCount"] = NumberOr(MatchesOf("review"), i, Num(0))
             /\ gems[i].d["address"] =
                  StrippedOr(MatchesOf("address"), i, Str("Address not available"))
             /\ gems[i].d["analysis"].d["whySpecial"] =
                  StrippedOr(MatchesOf("why"), i, Str("A hidden gem worth exploring"))
             /\ gems[i].d["analysis"].d["insiderTip"] =
                  StrippedOr(MatchesOf("tip"), i,
                    Str("Visit during off-peak hours for the best experience"))

(***************************************************************************)
(* Properties of the endpoint /api/select.                                 *)
(***************************************************************************)
\* the event carries model text or the result of a function_response
Carries(event) ==
  \/ event.role = "model" /\ JoinTexts(event.parts, 1) # ""
  \/ \E k \in 1..Len(event.parts) :
       event.parts[k].function_response = "result" /\ event.parts[k].result # ""

\* the text such an event carries
CarriedText(event) ==
  IF event.role = "model" /\ JoinTexts(event.parts, 1) # ""
  THEN JoinTexts(event.parts, 1)
  ELSE AfterParts(event.parts, "")

\* C30: in select the advice text is taken from the most recent event that
\* carries model text or a function_response result, however many later
\* events carry neither; the dump of the whole list is the advice only when
\* no event carries either
C30_AdviceFromMostRecentCarrier ==
  (pc = "select" /\ http # NoHttp) =>
    LET carriers == { i \in 1..Len(response) : Carries(response[i]) }
        last == CHOOSE i \in carriers : \A j \in carriers : j <= i
    IN  /\ http.kind = "return"
        /\ http.body.d["advice"] =
             AdviceData(IF carriers = {} THEN StrOfEvents(response)
                        ELSE CarriedText(response[last]))

(***************************************************************************)
(* Properties of the conversations of different callers.                   *)
(***************************************************************************)
\* C21: sessions do not share pipeline state: an operation of one caller is
\* never a turn of a conversation that holds turns of the other caller, and a
\* select of one caller is never evaluated against the gems returned to the
\* other
C21_SessionsIsolated ==
  pc = "callers" =>
    \A k \in 1..Len(session.turns) :
      /\ session.turns[k].against \in {"none", session.turns[k].caller}
      /\ \A j \in 1..k : session.turns[j].caller = session.turns[k].caller

====
